---- MODULE Spec2Model ----
(***************************************************************************)
(* A model of the multi-tenant alertmanager:                               *)
(*   - the Manager's reconcile step, MultitenantAlertmanager.setConfig     *)
(*     (pkg/alertmanager/types.go), with the engines it creates, re-applies*)
(*     and stops and the template files it writes;                         *)
(*   - the change pump (AlertmanagerGetterWrapper);                        *)
(*   - the receiver integrations' Notify and retry classifiers.            *)
(* Each part has its own specification over the shared variables; a        *)
(* specification leaves the other parts' variables unchanged.              *)
(***************************************************************************)
EXTENDS Integers, Sequences, FiniteSets, TLC

VARIABLES
    alertmanagers,  \* am.alertmanagers: tenant -> engine id
    cfgs,           \* am.cfgs: tenant -> AlertmanagerConfig
    engines,        \* every Alertmanager NewAlertmanager returned: id -> engine
    disk,           \* template files on disk: path -> content
    last,           \* what the most recent setConfig call did (history)
    posted,         \* every event Watch has sent on the channel (history)
    ch,             \* the buffered channel between Watch and the collector
    newUpdates,     \* AlertmanagerGetterWrapper.newUpdates
    mtx,            \* AlertmanagerGetterWrapper.mtx: "free" or its holder
    cpc,            \* RunUpdatesCollector: where the loop stands
    crg,            \* RunUpdatesCollector: the event rg it has received
    dpc,            \* GetAllUpdatedConfigs: where each caller stands
    dlist,          \* GetAllUpdatedConfigs: each caller's local list
    drained,        \* every drain's list, concatenated in drain order (history)
    call,           \* the input of the Notify call (or of the response handling)
    result,         \* what the call returned and did; NoResult before it ran
    accessToken,    \* Wechat.accessToken: 0 is "", k the k-th token issued
    accessTokenOld, \* time.Since(Wechat.accessTokenAt) > 2*time.Hour
    issued,         \* how many tokens gettoken has handed out
    wpc,            \* Wechat.Notify: where each caller stands
    wloc,           \* Wechat.Notify: each caller's locals and what it did
    whist,          \* what the calls did to the cached token (history)
    rpc,            \* Run: where it stands
    batch,          \* Run: the configs the last successful poll returned
    batchBase,      \* Run: last.n when addNewConfigs started on the batch
    all,            \* Run: the batch came from GetAllConfigs
    stopCh,         \* am.stop is closed
    doneCh,         \* am.done is closed
    ticker,         \* Run's ticker: "none", "running" or "stopped"
    spc,            \* Manager.Stop: where it stands
    rhist,          \* what Run's polls did (history)
    wevents,        \* the store events Client.Watch has handled (history)
    wout,           \* the messages Client.Watch has sent on ch (history)
    eng,            \* each tenant's Alertmanager, part by part, and its Stop
    http,           \* Manager.ServeHTTP: the request and where it stands
    lk,             \* setConfig lock by lock: the two mutexes and who holds them
    store,          \* the etcd keys under the prefix, and the admin request
    tr,             \* truncate: its input and what it returned
    tm,             \* one Notify's error cell and what its renderers returned
    tp,             \* the template files written and the last one asked for
    tf,             \* the dispatcher's timeout function: arguments and result
    po,             \* Pushover.Notify's message parameter, step by step
    rc,             \* the store, the watch and Run feeding the Manager
    race            \* two store clients working on one tenant's key

\* The variables of the parts further down.
lateVars == <<tf, po, rc, race>>

moreVars == <<lk, store, tr, tm, tp, lateVars>>

mgrVars == <<alertmanagers, cfgs, engines, disk, last>>

pumpVars == <<posted, ch, newUpdates, mtx, cpc, crg, dpc, dlist, drained>>

notifyVars == <<call, result>>

wechatVars == <<accessToken, accessTokenOld, issued, wpc, wloc, whist>>

runVars == <<rpc, batch, batchBase, all, stopCh, doneCh, ticker, spc, rhist>>

watchVars == <<wevents, wout>>

nonMgrVars ==
    <<pumpVars, notifyVars, wechatVars, runVars, watchVars, eng, http,
      moreVars>>

nonPumpVars ==
    <<mgrVars, notifyVars, wechatVars, runVars, watchVars, eng, http,
      moreVars>>

nonNotifyVars ==
    <<mgrVars, pumpVars, wechatVars, runVars, watchVars, eng, http,
      moreVars>>

nonWechatVars ==
    <<mgrVars, pumpVars, notifyVars, runVars, watchVars, eng, http,
      moreVars>>

\* What Run and Manager.Stop leave alone besides the Manager's maps.
nonRunVars ==
    <<pumpVars, notifyVars, wechatVars, watchVars, eng, http,
      moreVars>>

nonWatchVars ==
    <<mgrVars, pumpVars, notifyVars, wechatVars, runVars, eng, http,
      moreVars>>

nonEngVars ==
    <<mgrVars, pumpVars, notifyVars, wechatVars, runVars, watchVars, http,
      moreVars>>

\* The variables of the parts further up.
firstVars ==
    <<mgrVars, pumpVars, notifyVars, wechatVars, runVars, watchVars, eng, http>>

nonLkVars == <<firstVars, store, tr, tm, tp, lateVars>>

nonStoreVars == <<firstVars, lk, tr, tm, tp, lateVars>>

nonTrVars == <<firstVars, lk, store, tm, tp, lateVars>>

nonTmVars == <<firstVars, lk, store, tr, tp, lateVars>>

nonTpVars == <<firstVars, lk, store, tr, tm, lateVars>>

earlyVars == <<firstVars, lk, store, tr, tm, tp>>

nonTfVars == <<earlyVars, po, rc, race>>

nonPoVars == <<earlyVars, tf, rc, race>>

nonRcVars == <<earlyVars, tf, po, race>>

nonRaceVars == <<earlyVars, tf, po, rc>>

\* What ServeHTTP leaves alone: it only reads am.alertmanagers.
nonServeVars ==
    <<mgrVars, pumpVars, notifyVars, wechatVars, runVars, watchVars, eng,
      moreVars>>

(***************************************************************************)
(* Bounds and input sets.                                                  *)
(***************************************************************************)
\* The number of setConfig calls a behaviour makes.
MaxCalls == 3

Tenants == {"u1", "u2"}

\* Config texts: H1 and H2 parse; Hbad and the empty text do not.
ConfigTexts == {"H1", "H2", "Hbad"}

\* Template file names, as path segments: a.tmpl, ./a.tmpl, sub/b.tmpl.
FnA == <<"a.tmpl">>
FnDotA == <<".", "a.tmpl">>
FnSubB == <<"sub", "b.tmpl">>

\* Template contents: T1 and T2 parse, Tbad does not.
Contents == {"T1", "T2", "Tbad"}

DataDir == <<"data">>

\* A map with no entries.
EmptyFn == [x \in {} |-> x]

(***************************************************************************)
(* path/filepath.                                                          *)
(***************************************************************************)
CleanStep(out, seg) ==
    IF seg = "." THEN out
    ELSE IF seg = ".."
         THEN IF Len(out) > 0 /\ out[Len(out)] # ".."
              THEN SubSeq(out, 1, Len(out) - 1)
              ELSE Append(out, "..")
         ELSE Append(out, seg)

RECURSIVE CleanFrom(_, _)
CleanFrom(out, rest) ==
    IF rest = <<>> THEN out
    ELSE CleanFrom(CleanStep(out, Head(rest)), Tail(rest))

\* filepath.Clean of a relative path; the empty sequence stands for ".".
Clean(p) == CleanFrom(<<>>, p)

\* filepath.Dir: all but the last element, cleaned.
Dir(p) == IF p = <<>> THEN <<>> ELSE Clean(SubSeq(p, 1, Len(p) - 1))

\* filepath.Join of two paths.
Join(a, b) == Clean(a \o b)

(***************************************************************************)
(* Configs.                                                                *)
(***************************************************************************)
\* amconfig.Load succeeds.
amconfigLoadOK(text) == text \in {"H1", "H2"}

\* conf.Templates of a parsed config text.
ConfTemplates(text) ==
    IF text = "H1" THEN {FnA}
    ELSE IF text = "H2" THEN {FnA, FnSubB}
    ELSE {}

\* A template file's content parses.
TemplateParses(content) == content # "Tbad"

\* The template file maps the Manager is fed: none, one file (good or bad),
\* and two names for the same file with different contents.
TemplateFileMaps ==
    {EmptyFn} \cup {[n \in {FnA} |-> c] : c \in Contents}
    \cup {[n \in {FnA, FnDotA} |-> IF n = FnA THEN "T1" ELSE "T2"]}

\* The configs the Manager is fed for tenant u: active ones, a deactivated one
\* (DeactivateConfig keeps the content) and a deleted one (Watch's synthetic
\* config carries the user id and the deletion time only).
AlertmanagerConfig(u) ==
    [UserID : {u}, Config : ConfigTexts, TemplateFiles : TemplateFileMaps,
     UpdatedAtInUnix : {1}, DeactivatedAtInUnix : {0}, DeletedAtInUnix : {0}]
    \cup
    [UserID : {u}, Config : {"H1"}, TemplateFiles : {EmptyFn},
     UpdatedAtInUnix : {1}, DeactivatedAtInUnix : {5}, DeletedAtInUnix : {0}]
    \cup
    [UserID : {u}, Config : {""}, TemplateFiles : {EmptyFn},
     UpdatedAtInUnix : {0}, DeactivatedAtInUnix : {0}, DeletedAtInUnix : {7}]

(***************************************************************************)
(* Engines (Alertmanager).                                                 *)
(***************************************************************************)
\* NewAlertmanager: the maintenance tasks run, no dispatcher or inhibitor yet.
NewAlertmanager(u) ==
    [user |-> u, conf |-> "", tmpl |-> EmptyFn, tasks |-> "running",
     dispatcher |-> "nil", inhibitor |-> "nil", stops |-> 0]

\* The files ApplyConfig hands to template.FromGlobs.
ApplyTemplateFiles(u, text) ==
    {Join(DataDir \o <<"templates", u>>, t) : t \in ConfTemplates(text)}

\* template.FromGlobs succeeds: every matched file parses.
FromGlobsOK(dsk, u, text) ==
    \A p \in ApplyTemplateFiles(u, text) \cap DOMAIN dsk : TemplateParses(dsk[p])

\* The renderer built from the matched files.
FromGlobs(dsk, u, text) ==
    LET found == ApplyTemplateFiles(u, text) \cap DOMAIN dsk
    IN  [p \in found |-> dsk[p]]

ApplyConfigOK(dsk, u, text) == FromGlobsOK(dsk, u, text)

\* Alertmanager.ApplyConfig, when it succeeds.
ApplyConfig(e, dsk, u, text) ==
    [e EXCEPT !.conf = text, !.tmpl = FromGlobs(dsk, u, text),
              !.dispatcher = "running", !.inhibitor = "running"]

\* Alertmanager.Stop.
EngineStop(e) ==
    [e EXCEPT !.dispatcher = "stopped", !.tasks = "stopped", !.stops = @ + 1]

\* Started and not yet stopped.
EngineLive(e) == e.tasks = "running"

(***************************************************************************)
(* The Manager (MultitenantAlertmanager).                                  *)
(***************************************************************************)
\* The orders in which a Go map's keys may be ranged over.
Orders(S) ==
    {o \in [1..Cardinality(S) -> S] : \A i, j \in DOMAIN o : o[i] = o[j] => i = j}

\* The file createTemplatesFile reads and writes for template fn of tenant u.
TemplateFilePath(u, fn) ==
    LET dir == Join(DataDir \o <<"templates", u>>, Dir(fn))
    IN  Join(dir, fn)

\* createTemplatesFile: the disk afterwards and whether the file changed.
\* The file system calls (MkdirAll, WriteFile) are taken to succeed; what a
\* call does then depends on the contents only.
createTemplatesFile(dsk, u, fn, content) ==
    LET file == TemplateFilePath(u, fn)
    IN  IF file \in DOMAIN dsk /\ dsk[file] = content
        THEN [disk |-> dsk, changed |-> FALSE]
        ELSE [disk |-> [p \in DOMAIN dsk \cup {file} |->
                            IF p = file THEN content ELSE dsk[p]],
              changed |-> TRUE]

\* The loop over config.TemplateFiles, in the order the map is ranged over.
RECURSIVE writeTemplates(_, _, _, _, _)
writeTemplates(dsk, u, files, order, changed) ==
    IF order = <<>> THEN [disk |-> dsk, changed |-> changed]
    ELSE LET r == createTemplatesFile(dsk, u, Head(order), files[Head(order)])
         IN  writeTemplates(r.disk, u, files, Tail(order), changed \/ r.changed)

Remove(f, k) == [x \in DOMAIN f \ {k} |-> f[x]]
Put(f, k, v) == [x \in DOMAIN f \cup {k} |-> IF x = k THEN v ELSE f[x]]

\* am.cfgs[userID]: the zero value when the tenant has no entry.
NoConfig ==
    [UserID |-> "", Config |-> "", TemplateFiles |-> EmptyFn,
     UpdatedAtInUnix |-> 0, DeactivatedAtInUnix |-> 0, DeletedAtInUnix |-> 0]

Cached(u) == IF u \in DOMAIN cfgs THEN cfgs[u] ELSE NoConfig

EngineOf(u) == IF u \in DOMAIN alertmanagers THEN alertmanagers[u] ELSE 0

nextId == Cardinality(DOMAIN engines) + 1

\* The config carries a deactivation or deletion time.
CarriesOff(config) ==
    config.DeactivatedAtInUnix > 0 \/ config.DeletedAtInUnix > 0

NoCall ==
    [n |-> 0, u |-> "", config |-> NoConfig, ret |-> "none", pre |-> 0,
     preCfg |-> NoConfig, changed |-> FALSE, created |-> 0, applied |-> 0,
     stopped |-> 0, prevSame |-> FALSE, prevRet |-> "none", offs |-> {}]

\* The record of the call being made, from the state before and after it:
\*   pre, preCfg  the tenant's engine and cached config when the call started
\*   changed      hasTemplateChanges
\*   created      engines NewAlertmanager returned during the call
\*   applied      ApplyConfig calls on the engine that already existed
\*   stopped      engines whose Stop was called during the call
\*   prevSame     the previous call had the same tenant and config
\*   prevRet      what the previous call returned
\*   offs         tenants whose most recent config was deactivated or deleted
Call(u, config, ret, changed, applied) ==
    [n |-> last.n + 1, u |-> u, config |-> config, ret |-> ret,
     pre |-> EngineOf(u), preCfg |-> Cached(u), changed |-> changed,
     created |-> Cardinality(DOMAIN engines') - Cardinality(DOMAIN engines),
     applied |-> applied,
     stopped |-> Cardinality({id \in DOMAIN engines :
                                engines'[id].stops > engines[id].stops}),
     prevSame |-> (last.u = u /\ last.config = config),
     prevRet |-> last.ret,
     offs |-> IF CarriesOff(config) THEN last.offs \cup {u} ELSE last.offs \ {u}]

\* A teardown condition that looks at the deactivation time only.
IsOffDeactivatedOnly(config) == config.DeactivatedAtInUnix > 0

\* The condition under which setConfig tears the tenant down.
IsOff(config) ==
    config.DeactivatedAtInUnix > 0 \/ config.DeletedAtInUnix > 0

\* A teardown that stops the engine and leaves it in the map.
setConfigOffKeepsEntry(u, config) ==
    /\ UNCHANGED nonMgrVars
    /\ last.n < MaxCalls
    /\ IsOff(config)
    /\ alertmanagers' = alertmanagers
    /\ engines' = IF u \in DOMAIN alertmanagers
                  THEN [engines EXCEPT ![alertmanagers[u]] = EngineStop(@)]
                  ELSE engines
    /\ cfgs' = Remove(cfgs, u)
    /\ disk' = disk
    /\ last' = Call(u, config, "ok", FALSE, 0)

\* setConfig with a deactivated or deleted config: stop and forget.
setConfigOff(u, config) ==
    /\ UNCHANGED nonMgrVars
    /\ last.n < MaxCalls
    /\ IsOff(config)
    /\ alertmanagers' = Remove(alertmanagers, u)
    /\ engines' = IF u \in DOMAIN alertmanagers
                  THEN [engines EXCEPT ![alertmanagers[u]] = EngineStop(@)]
                  ELSE engines
    /\ cfgs' = Remove(cfgs, u)
    /\ disk' = disk
    /\ last' = Call(u, config, "ok", FALSE, 0)

\* A parse failure that tears the tenant's engine down.
setConfigParseErrorTearsDown(u, config, w) ==
    /\ UNCHANGED nonMgrVars
    /\ ~amconfigLoadOK(config.Config)
    /\ disk' = w.disk
    /\ alertmanagers' = Remove(alertmanagers, u)
    /\ engines' = IF u \in DOMAIN alertmanagers
                  THEN [engines EXCEPT ![alertmanagers[u]] = EngineStop(@)]
                  ELSE engines
    /\ cfgs' = cfgs
    /\ last' = Call(u, config, "err", w.changed, 0)

\* setConfig with an active config whose text does not parse.
setConfigParseError(u, config, w) ==
    /\ UNCHANGED nonMgrVars
    /\ ~amconfigLoadOK(config.Config)
    /\ disk' = w.disk
    /\ UNCHANGED <<alertmanagers, cfgs, engines>>
    /\ last' = Call(u, config, "err", w.changed, 0)

\* setConfig for a tenant without an engine: newAlertmanager, then insert.
\* An engine whose initial ApplyConfig fails is dropped without being stopped.
setConfigCreate(u, config, w) ==
    /\ UNCHANGED nonMgrVars
    /\ amconfigLoadOK(config.Config)
    /\ u \notin DOMAIN alertmanagers
    /\ disk' = w.disk
    /\ IF ApplyConfigOK(w.disk, u, config.Config)
       THEN /\ engines' = Put(engines, nextId,
                              ApplyConfig(NewAlertmanager(u), w.disk, u, config.Config))
            /\ alertmanagers' = Put(alertmanagers, u, nextId)
            /\ cfgs' = Put(cfgs, u, config)
            /\ last' = Call(u, config, "ok", w.changed, 0)
       ELSE /\ engines' = Put(engines, nextId, NewAlertmanager(u))
            /\ UNCHANGED <<alertmanagers, cfgs>>
            /\ last' = Call(u, config, "err", w.changed, 0)

\* An update that caches the config before ApplyConfig has succeeded.
setConfigUpdateCachesFirst(u, config, w) ==
    /\ UNCHANGED nonMgrVars
    /\ amconfigLoadOK(config.Config)
    /\ u \in DOMAIN alertmanagers
    /\ disk' = w.disk
    /\ IF Cached(u).Config # config.Config \/ w.changed
       THEN /\ cfgs' = Put(cfgs, u, config)
            /\ alertmanagers' = alertmanagers
            /\ IF ApplyConfigOK(w.disk, u, config.Config)
               THEN /\ engines' = [engines EXCEPT ![alertmanagers[u]] =
                                       ApplyConfig(@, w.disk, u, config.Config)]
                    /\ last' = Call(u, config, "ok", w.changed, 1)
               ELSE /\ engines' = engines
                    /\ last' = Call(u, config, "err", w.changed, 1)
       ELSE /\ UNCHANGED <<alertmanagers, cfgs, engines>>
            /\ last' = Call(u, config, "ok", w.changed, 0)

\* setConfig for a tenant with an engine: ApplyConfig if anything changed.
setConfigUpdate(u, config, w) ==
    /\ UNCHANGED nonMgrVars
    /\ amconfigLoadOK(config.Config)
    /\ u \in DOMAIN alertmanagers
    /\ disk' = w.disk
    /\ IF Cached(u).Config # config.Config \/ w.changed
       THEN IF ApplyConfigOK(w.disk, u, config.Config)
            THEN /\ engines' = [engines EXCEPT ![alertmanagers[u]] =
                                    ApplyConfig(@, w.disk, u, config.Config)]
                 /\ cfgs' = Put(cfgs, u, config)
                 /\ alertmanagers' = alertmanagers
                 /\ last' = Call(u, config, "ok", w.changed, 1)
            ELSE /\ UNCHANGED <<alertmanagers, cfgs, engines>>
                 /\ last' = Call(u, config, "err", w.changed, 1)
       ELSE /\ UNCHANGED <<alertmanagers, cfgs, engines>>
            /\ last' = Call(u, config, "ok", w.changed, 0)

setConfigActive(u, config) ==
    /\ last.n < MaxCalls
    /\ ~IsOff(config)
    /\ \E order \in Orders(DOMAIN config.TemplateFiles) :
         LET w == writeTemplates(disk, u, config.TemplateFiles, order, FALSE)
         IN  \/ setConfigParseError(u, config, w)
             \/ setConfigCreate(u, config, w)
             \/ setConfigUpdate(u, config, w)

setConfig(u, config) ==
    \/ setConfigOff(u, config)
    \/ setConfigActive(u, config)

MgrInit ==
    /\ alertmanagers = EmptyFn
    /\ cfgs = EmptyFn
    /\ engines = EmptyFn
    /\ disk = EmptyFn
    /\ last = NoCall

MgrNext ==
    \E u \in Tenants : \E config \in AlertmanagerConfig(u) : setConfig(u, config)

(***************************************************************************)
(* The change pump: Watch sends events on a buffered channel; the          *)
(* collector loop moves them into newUpdates under mtx; every              *)
(* GetAllUpdatedConfigs call takes the buffer and replaces it by an empty  *)
(* one under mtx.                                                          *)
(***************************************************************************)

\* The number of events Watch posts in a behaviour.
MaxEvents == 3

\* The channel's capacity, scaled down from UpdateChannelBufferSize.
ChanCap == 2

\* The goroutines that call GetAllUpdatedConfigs.
Drainers == {"d1", "d2"}

\* Watch: ch <- event. Blocks while the channel is full. Events are numbered
\* in the order they are posted.
WatchPost ==
    /\ Len(posted) < MaxEvents
    /\ Len(ch) < ChanCap
    /\ ch' = Append(ch, Len(posted) + 1)
    /\ posted' = Append(posted, Len(posted) + 1)
    /\ UNCHANGED <<newUpdates, mtx, cpc, crg, dpc, dlist, drained>>
    /\ UNCHANGED nonPumpVars

\* RunUpdatesCollector: rg := <-ch
CollectorRecv ==
    /\ cpc = "recv"
    /\ ch # <<>>
    /\ crg' = Head(ch)
    /\ ch' = Tail(ch)
    /\ cpc' = "lock"
    /\ UNCHANGED <<posted, newUpdates, mtx, dpc, dlist, drained>>
    /\ UNCHANGED nonPumpVars

\* RunUpdatesCollector: am.mtx.Lock()
CollectorLock ==
    /\ cpc = "lock"
    /\ mtx = "free"
    /\ mtx' = "collector"
    /\ cpc' = "append"
    /\ UNCHANGED <<posted, ch, newUpdates, crg, dpc, dlist, drained>>
    /\ UNCHANGED nonPumpVars

\* RunUpdatesCollector: am.newUpdates = append(am.newUpdates, rg)
CollectorAppend ==
    /\ cpc = "append"
    /\ newUpdates' = Append(newUpdates, crg)
    /\ crg' = 0
    /\ cpc' = "unlock"
    /\ UNCHANGED <<posted, ch, mtx, dpc, dlist, drained>>
    /\ UNCHANGED nonPumpVars

\* RunUpdatesCollector: am.mtx.Unlock()
CollectorUnlock ==
    /\ cpc = "unlock"
    /\ mtx' = "free"
    /\ cpc' = "recv"
    /\ UNCHANGED <<posted, ch, newUpdates, crg, dpc, dlist, drained>>
    /\ UNCHANGED nonPumpVars

\* A caller enters GetAllUpdatedConfigs.
DrainCall(d) ==
    /\ dpc[d] = "idle"
    /\ dpc' = [dpc EXCEPT ![d] = "lock"]
    /\ UNCHANGED <<posted, ch, newUpdates, mtx, cpc, crg, dlist, drained>>
    /\ UNCHANGED nonPumpVars

\* GetAllUpdatedConfigs: am.mtx.Lock()
DrainLock(d) ==
    /\ dpc[d] = "lock"
    /\ mtx = "free"
    /\ mtx' = d
    /\ dpc' = [dpc EXCEPT ![d] = "copy"]
    /\ UNCHANGED <<posted, ch, newUpdates, cpc, crg, dlist, drained>>
    /\ UNCHANGED nonPumpVars

\* GetAllUpdatedConfigs: list = am.newUpdates
DrainCopy(d) ==
    /\ dpc[d] = "copy"
    /\ dlist' = [dlist EXCEPT ![d] = newUpdates]
    /\ drained' = drained \o newUpdates
    /\ dpc' = [dpc EXCEPT ![d] = "clear"]
    /\ UNCHANGED <<posted, ch, newUpdates, mtx, cpc, crg>>
    /\ UNCHANGED nonPumpVars

\* A drain that leaves the buffer as it is.
DrainClearKeepsBuffer(d) ==
    /\ dpc[d] = "clear"
    /\ dpc' = [dpc EXCEPT ![d] = "unlock"]
    /\ UNCHANGED <<posted, ch, newUpdates, mtx, cpc, crg, dlist, drained>>
    /\ UNCHANGED nonPumpVars

\* GetAllUpdatedConfigs: am.newUpdates = []AlertmanagerConfig{}
DrainClear(d) ==
    /\ dpc[d] = "clear"
    /\ newUpdates' = <<>>
    /\ dpc' = [dpc EXCEPT ![d] = "unlock"]
    /\ UNCHANGED <<posted, ch, mtx, cpc, crg, dlist, drained>>
    /\ UNCHANGED nonPumpVars

\* GetAllUpdatedConfigs: am.mtx.Unlock()
DrainUnlock(d) ==
    /\ dpc[d] = "unlock"
    /\ mtx' = "free"
    /\ dpc' = [dpc EXCEPT ![d] = "return"]
    /\ UNCHANGED <<posted, ch, newUpdates, cpc, crg, dlist, drained>>
    /\ UNCHANGED nonPumpVars

\* GetAllUpdatedConfigs: return list, nil
DrainReturn(d) ==
    /\ dpc[d] = "return"
    /\ dpc' = [dpc EXCEPT ![d] = "idle"]
    /\ dlist' = [dlist EXCEPT ![d] = <<>>]
    /\ UNCHANGED <<posted, ch, newUpdates, mtx, cpc, crg, drained>>
    /\ UNCHANGED nonPumpVars

\* NewAlertmanagerGetterWrapper: empty buffer, collector started.
PumpInit ==
    /\ posted = <<>>
    /\ ch = <<>>
    /\ newUpdates = <<>>
    /\ mtx = "free"
    /\ cpc = "recv"
    /\ crg = 0
    /\ dpc = [d \in Drainers |-> "idle"]
    /\ dlist = [d \in Drainers |-> <<>>]
    /\ drained = <<>>

PumpNext ==
    \/ WatchPost
    \/ CollectorRecv
    \/ CollectorLock
    \/ CollectorAppend
    \/ CollectorUnlock
    \/ \E d \in Drainers :
         \/ DrainCall(d)
         \/ DrainLock(d)
         \/ DrainCopy(d)
         \/ DrainClear(d)
         \/ DrainUnlock(d)
         \/ DrainReturn(d)

(***************************************************************************)
(* The receiver integrations: how each Notify turns the provider's         *)
(* response into (retryable, error).                                       *)
(***************************************************************************)

Providers ==
    {"webhook", "pagerdutyV1", "pagerdutyV2", "slack", "hipchat", "opsgenie",
     "victorops", "pushover", "wechat"}

\* The status codes a response can carry.
StatusCodes == 100..599

\* The errcode of a WeChat response body: "unparsable" when the body is not
\* the JSON object expected, "other" for every code but 0 and 42001.
WechatCodes == {"0", "42001", "other", "unparsable"}

\* (retryable, error): err is "nil" or names the kind of error.
Ret(retry, err) == [retry |-> retry, err |-> err]

WebhookRetry(statusCode) ==
    IF statusCode \div 100 # 2
    THEN Ret(statusCode \div 100 = 5, "status")
    ELSE Ret(FALSE, "nil")

\* A v1 classifier that uses the v2 rate-limit code.
PagerDutyRetryV1On429(statusCode) ==
    IF statusCode \div 100 # 2
    THEN Ret(statusCode = 429 \/ statusCode \div 100 = 5, "status")
    ELSE Ret(FALSE, "nil")

PagerDutyRetryV1(statusCode) ==
    IF statusCode \div 100 # 2
    THEN Ret(statusCode = 403 \/ statusCode \div 100 = 5, "status")
    ELSE Ret(FALSE, "nil")

PagerDutyRetryV2(statusCode) ==
    IF statusCode \div 100 # 2
    THEN Ret(statusCode = 429 \/ statusCode \div 100 = 5, "status")
    ELSE Ret(FALSE, "nil")

SlackRetry(statusCode) ==
    IF statusCode \div 100 # 2
    THEN Ret(statusCode \div 100 = 5, "status")
    ELSE Ret(FALSE, "nil")

HipchatRetry(statusCode) ==
    IF statusCode \div 100 # 2
    THEN Ret(statusCode = 429 \/ statusCode \div 100 = 5, "status")
    ELSE Ret(FALSE, "nil")

OpsGenieRetry(statusCode) ==
    IF statusCode \div 100 = 5 \/ statusCode = 429
    THEN Ret(TRUE, "status")
    ELSE IF statusCode \div 100 # 2
         THEN Ret(FALSE, "status")
         ELSE Ret(FALSE, "nil")

VictorOpsRetry(statusCode) ==
    IF statusCode \div 100 = 5
    THEN Ret(TRUE, "status")
    ELSE IF statusCode \div 100 # 2
         THEN Ret(FALSE, "status")
         ELSE Ret(FALSE, "nil")

PushoverRetry(statusCode) ==
    IF statusCode \div 100 = 5
    THEN Ret(TRUE, "status")
    ELSE IF statusCode \div 100 # 2
         THEN Ret(FALSE, "status")
         ELSE Ret(FALSE, "nil")

\* A WeChat response handler that takes every 2xx status as success.
WechatResponseAny2xx(statusCode, code) ==
    IF statusCode \div 100 # 2 THEN Ret(TRUE, "status")
    ELSE Ret(FALSE, "nil")

\* Wechat.Notify after message/send has answered.
WechatResponse(statusCode, code) ==
    IF statusCode # 200 THEN Ret(TRUE, "status")
    ELSE IF code = "unparsable" THEN Ret(TRUE, "decode")
    ELSE IF code = "0" THEN Ret(FALSE, "nil")
    ELSE IF code = "42001" THEN Ret(TRUE, "wechat")
    ELSE Ret(FALSE, "wechat")

\* What Notify of provider p returns once the provider has answered.
Respond(p, statusCode, code) ==
    CASE p = "webhook" -> WebhookRetry(statusCode)
      [] p = "pagerdutyV1" -> PagerDutyRetryV1(statusCode)
      [] p = "pagerdutyV2" -> PagerDutyRetryV2(statusCode)
      [] p = "slack" -> SlackRetry(statusCode)
      [] p = "hipchat" -> HipchatRetry(statusCode)
      [] p = "opsgenie" -> OpsGenieRetry(statusCode)
      [] p = "victorops" -> VictorOpsRetry(statusCode)
      [] p = "pushover" -> PushoverRetry(statusCode)
      [] p = "wechat" -> WechatResponse(statusCode, code)

(***************************************************************************)
(* Notify, from the call to the return.  A call's input says whether the   *)
(* context carries a group key, whether the alerts are resolved, which     *)
(* templated fields fail to render, whether the HTTP client can be built,  *)
(* whether the transport delivers the request, and what the provider       *)
(* answers.                                                                *)
(***************************************************************************)

\* The number of templated fields that fail to render in one call.
MaxBad == 1

\* The longest user ID, in characters.
MaxIdLen == 2

\* The number of store events Watch handles.
MaxStoreEvents == 2

\* The longest list a poll of the config store returns.
MaxBatch == 2

\* The number of tokens gettoken hands out before no further call starts.
MaxTokens == 2

\* The status codes the calls are tried with.
NotifyStatusCodes == {200, 201, 400, 403, 429, 500}

\* What the gettoken leg of WeChat can end with.
TokenAnswers == {"token", "transport", "undecodable", "empty"}

\* tmplText / tmplHTML: the latched error after rendering the fields in this
\* order is that of the first field that fails.
RECURSIVE Latch(_, _)
Latch(fields, bad) ==
    IF fields = <<>> THEN "nil"
    ELSE IF Head(fields) \in bad THEN Head(fields)
    ELSE Latch(Tail(fields), bad)

\* (retryable, error), the requests handed to the HTTP client, the render
\* errors that occurred, and whether WeChat's token is cached afterwards.
Out(retry, err, sent, rendered, token) ==
    [retry |-> retry, err |-> err, sent |-> sent, tmplErr |-> rendered,
     token |-> token]

\* The *url.Error of a failed c.Do: its text holds the request URL.
UrlError == "Post URL: connection refused"

\* redactURL: a *url.Error gets its URL replaced, any other error is kept.
redactURL(err) ==
    IF err = UrlError THEN "Post <redacted>: connection refused" ELSE err

\* What each Notify returns as the error of a failed post: Slack, Hipchat,
\* VictorOps, Pushover and WeChat pass it through redactURL; PagerDuty v2
\* formats it into a new error; Webhook, PagerDuty v1 and OpsGenie return
\* it as it is.
PostError(p) ==
    CASE p \in {"slack", "hipchat", "victorops", "pushover", "wechat"} ->
             redactURL(UrlError)
      [] p = "pagerdutyV2" -> "failed to post message to PagerDuty: " \o UrlError
      [] p \in {"webhook", "pagerdutyV1", "opsgenie"} -> UrlError

\* c.Do / post and the classification of the answer.
Send(in, sent, rendered) ==
    IF ~in.transportOK
    THEN Out(TRUE, PostError(in.p), Append(sent, in.p), rendered, in.token)
    ELSE LET r == Respond(in.p, in.status, in.code)
         IN  Out(r.retry, r.err, Append(sent, in.p), rendered, in.token)

WebhookNotify(in) ==
    IF ~in.clientOK THEN Out(FALSE, "client", <<>>, {}, in.token)
    ELSE Send(in, <<>>, {})

PagerDutyV1Fields(in) ==
    IF in.resolved THEN <<"serviceKey", "description">>
    ELSE <<"serviceKey", "description", "client", "clientURL">>

PagerDutyV2Fields ==
    <<"description", "client", "clientURL", "routingKey", "severity",
      "class", "component", "group", "images", "links">>

PagerDutyNotify(in) ==
    LET fields == IF in.p = "pagerdutyV1" THEN PagerDutyV1Fields(in)
                  ELSE PagerDutyV2Fields
        e == Latch(fields, in.bad)
    IN  IF ~in.hasKey THEN Out(FALSE, "group key missing", <<>>, {}, in.token)
        ELSE IF "details" \in in.bad
             THEN Out(FALSE, "template", <<>>, {"details"}, in.token)
        ELSE IF ~in.clientOK THEN Out(FALSE, "client", <<>>, {}, in.token)
        ELSE IF e # "nil" THEN Out(FALSE, "template", <<>>, {e}, in.token)
        ELSE Send(in, <<>>, {})

SlackFields ==
    <<"title", "titleLink", "pretext", "text", "fallback", "callbackID",
      "imageURL", "thumbURL", "footer", "color", "fields", "actions",
      "channel", "username", "iconEmoji", "iconURL">>

SlackNotify(in) ==
    LET e == Latch(SlackFields, in.bad)
    IN  IF e # "nil" THEN Out(FALSE, "template", <<>>, {e}, in.token)
        ELSE IF ~in.clientOK THEN Out(FALSE, "client", <<>>, {}, in.token)
        ELSE Send(in, <<>>, {})

HipchatFields == <<"roomID", "message", "from", "color">>

HipchatNotify(in) ==
    LET e == Latch(HipchatFields, in.bad)
    IN  IF e # "nil" THEN Out(FALSE, "template", <<>>, {e}, in.token)
        ELSE IF ~in.clientOK THEN Out(FALSE, "client", <<>>, {}, in.token)
        ELSE Send(in, <<>>, {})

OpsGenieFields(in) ==
    IF in.resolved THEN <<"details", "source", "apiKey">>
    ELSE <<"details", "message", "teams", "tags", "description", "source",
           "note", "priority", "apiKey">>

\* createRequest: (request built, retry, error, render errors)
OpsGenieCreateRequest(in) ==
    LET e == Latch(OpsGenieFields(in), in.bad)
    IN  IF ~in.hasKey
        THEN [ok |-> FALSE, retry |-> FALSE, err |-> "group key missing",
              tmplErr |-> {}]
        ELSE IF e # "nil"
        THEN [ok |-> FALSE, retry |-> FALSE, err |-> "template", tmplErr |-> {e}]
        ELSE [ok |-> TRUE, retry |-> TRUE, err |-> "nil", tmplErr |-> {}]

OpsGenieNotify(in) ==
    LET r == OpsGenieCreateRequest(in)
    IN  IF ~r.ok THEN Out(r.retry, r.err, <<>>, r.tmplErr, in.token)
        ELSE IF ~in.clientOK THEN Out(FALSE, "client", <<>>, {}, in.token)
        ELSE Send(in, <<>>, {})

VictorOpsPayloadFields ==
    <<"messageType", "stateMessage", "entityDisplayName", "monitoringTool",
      "customFields">>

\* createVictorOpsPayload: (payload built, error, render errors)
createVictorOpsPayload(in) ==
    LET e == Latch(VictorOpsPayloadFields, in.bad)
    IN  IF ~in.hasKey
        THEN [ok |-> FALSE, err |-> "group key missing", tmplErr |-> {}]
        ELSE IF e # "nil"
        THEN [ok |-> FALSE, err |-> "template", tmplErr |-> {e}]
        ELSE [ok |-> TRUE, err |-> "nil", tmplErr |-> {}]

\* The routing key is rendered into the URL; the error it latches is
\* overwritten by the result of building the HTTP client.
VictorOpsNotify(in) ==
    LET rk == {"routingKey"} \cap in.bad
        r == createVictorOpsPayload(in)
    IN  IF ~in.clientOK THEN Out(FALSE, "client", <<>>, rk, in.token)
        ELSE IF ~r.ok THEN Out(TRUE, r.err, <<>>, rk \cup r.tmplErr, in.token)
        ELSE Send(in, <<>>, rk)

PushoverFields ==
    <<"token", "userKey", "title", "message", "url", "urlTitle", "priority",
      "sound">>

PushoverNotify(in) ==
    LET e == Latch(PushoverFields, in.bad)
    IN  IF ~in.hasKey THEN Out(FALSE, "group key missing", <<>>, {}, in.token)
        ELSE IF e # "nil" THEN Out(FALSE, "template", <<>>, {e}, in.token)
        ELSE IF ~in.clientOK THEN Out(FALSE, "client", <<>>, {}, in.token)
        ELSE Send(in, <<>>, {})

WechatTokenFields == <<"apiSecret", "corpID">>

WechatMessageFields == <<"message", "toUser", "toParty", "toTag", "agentID">>

\* Wechat.Notify from the message on, with the requests sent so far and the
\* token now cached.
WechatSend(in, sent) ==
    LET e == Latch(WechatMessageFields, in.bad)
        r == WechatResponse(in.status, in.code)
    IN  IF e # "nil" THEN Out(FALSE, "template", sent, {e}, TRUE)
        ELSE IF ~in.transportOK
        THEN Out(TRUE, PostError("wechat"), Append(sent, "send"), {}, TRUE)
        ELSE Out(r.retry, r.err, Append(sent, "send"), {},
                 ~(in.status = 200 /\ in.code = "42001"))

\* in.token: an access token is cached and younger than two hours.
WechatNotify(in) ==
    LET e == Latch(WechatTokenFields, in.bad)
    IN  IF ~in.hasKey THEN Out(FALSE, "group key missing", <<>>, {}, in.token)
        ELSE IF ~in.clientOK THEN Out(FALSE, "client", <<>>, {}, in.token)
        ELSE IF in.token THEN WechatSend(in, <<>>)
        ELSE IF e # "nil" THEN Out(FALSE, "template", <<>>, {e}, FALSE)
        ELSE IF in.tokenAnswer = "transport"
        THEN Out(TRUE, PostError("wechat"), <<"gettoken">>, {}, FALSE)
        ELSE IF in.tokenAnswer = "undecodable"
        THEN Out(FALSE, "decode", <<"gettoken">>, {}, FALSE)
        ELSE IF in.tokenAnswer = "empty"
        THEN Out(FALSE, "invalid secret", <<"gettoken">>, {}, FALSE)
        ELSE WechatSend(in, <<"gettoken">>)

Notify(in) ==
    CASE in.p = "webhook" -> WebhookNotify(in)
      [] in.p \in {"pagerdutyV1", "pagerdutyV2"} -> PagerDutyNotify(in)
      [] in.p = "slack" -> SlackNotify(in)
      [] in.p = "hipchat" -> HipchatNotify(in)
      [] in.p = "opsgenie" -> OpsGenieNotify(in)
      [] in.p = "victorops" -> VictorOpsNotify(in)
      [] in.p = "pushover" -> PushoverNotify(in)
      [] in.p = "wechat" -> WechatNotify(in)

Range(f) == {f[i] : i \in DOMAIN f}

\* The templated fields of a provider's config.
TemplatedFields(p) ==
    CASE p = "webhook" -> {}
      [] p = "pagerdutyV1" ->
             {"details"} \cup Range(PagerDutyV1Fields([resolved |-> FALSE]))
      [] p = "pagerdutyV2" -> {"details"} \cup Range(PagerDutyV2Fields)
      [] p = "slack" -> Range(SlackFields)
      [] p = "hipchat" -> Range(HipchatFields)
      [] p = "opsgenie" -> Range(OpsGenieFields([resolved |-> FALSE]))
      [] p = "victorops" -> {"routingKey"} \cup Range(VictorOpsPayloadFields)
      [] p = "pushover" -> Range(PushoverFields)
      [] p = "wechat" -> Range(WechatTokenFields) \cup Range(WechatMessageFields)

BadFields(p) ==
    {b \in SUBSET TemplatedFields(p) : Cardinality(b) <= MaxBad}

\* The Notify calls: one provider, one context, one outcome per step of the
\* call that can fail.
NotifyCalls ==
    UNION {[p : {p}, hasKey : BOOLEAN, resolved : BOOLEAN, bad : BadFields(p),
            clientOK : BOOLEAN, transportOK : BOOLEAN,
            status : NotifyStatusCodes,
            code : IF p = "wechat" THEN WechatCodes ELSE {"0"},
            token : IF p = "wechat" THEN BOOLEAN ELSE {FALSE},
            tokenAnswer : IF p = "wechat" THEN TokenAnswers ELSE {"token"}]
           : p \in Providers}

NoResult == [retry |-> FALSE, err |-> "none"]

\* The answers a provider can give: only WeChat's body is looked at.
Responses ==
    [p : Providers \ {"wechat"}, status : StatusCodes, code : {"0"}]
    \cup [p : {"wechat"}, status : StatusCodes, code : WechatCodes]

RetryInit ==
    /\ call \in Responses
    /\ result = NoResult

\* The provider has answered: Notify classifies the response and returns.
RespondStep ==
    /\ result.err = "none"
    /\ result' = Respond(call.p, call.status, call.code)
    /\ call' = call
    /\ UNCHANGED nonNotifyVars

NotifyInit ==
    /\ call \in NotifyCalls
    /\ result = NoResult

\* One Notify call, from entry to return.
NotifyStep ==
    /\ result.err = "none"
    /\ result' = Notify(call)
    /\ call' = call
    /\ UNCHANGED nonNotifyVars

(***************************************************************************)
(* Wechat.Notify step by step, on one Wechat integration whose cached      *)
(* token is shared by the calls in flight (notify/impl.go: the struct has  *)
(* the fields accessToken and accessTokenAt and no lock).                  *)
(***************************************************************************)
Callers == {"n1", "n2"}

\* What a call is given: the context's group key, whether the HTTP client
\* can be built, and the config fields whose template fails to render.
WechatCalls ==
    [hasKey : {TRUE}, clientOK : {TRUE}, bad : {{}, {"apiSecret"}, {"message"}}]
    \cup {[hasKey |-> FALSE, clientOK |-> TRUE, bad |-> {}],
          [hasKey |-> TRUE, clientOK |-> FALSE, bad |-> {}]}

\* What message/send can answer.
WechatAnswers ==
    [transportOK : {TRUE}, status : {200}, code : WechatCodes]
    \cup {[transportOK |-> TRUE, status |-> 500, code |-> "0"],
          [transportOK |-> FALSE, status |-> 200, code |-> "0"]}

NoAnswer == [transportOK |-> FALSE, status |-> 0, code |-> "none"]

\* bad: the fields that fail to render; found, fresh: the token line 753 saw
\* and whether it let the call skip the refresh; got: the token gettoken
\* answered; sentTok: the token put in the message/send URL; reqs: the
\* requests sent; resp: what message/send answered; ret: what Notify returned;
\* after42001: line 753 ran after a call was answered 42001, with no other
\* call reading or caching the token in between.
NoLocal ==
    [bad |-> {}, found |-> -1, fresh |-> FALSE, got |-> 0, sentTok |-> -1,
     reqs |-> <<>>, ret |-> NoResult, resp |-> NoAnswer, after42001 |-> FALSE]

WechatInit ==
    /\ accessToken = 0
    /\ accessTokenOld = FALSE
    /\ issued = 0
    /\ wpc = [c \in Callers |-> "idle"]
    /\ wloc = [c \in Callers |-> NoLocal]
    /\ whist = [expired |-> FALSE, clearedNewer |-> FALSE,
                overwroteNewer |-> FALSE]

\* A call returns: its result is kept until the caller's next call.
WechatReturn(c, loc, ret) ==
    /\ wpc' = [wpc EXCEPT ![c] = "idle"]
    /\ wloc' = [wloc EXCEPT ![c] = [loc EXCEPT !.ret = ret]]

\* Lines 733-750: the group key, tmplText, the HTTP client.
WechatStart(c, in) ==
    /\ wpc[c] = "idle"
    /\ issued < MaxTokens
    /\ LET loc == [NoLocal EXCEPT !.bad = in.bad]
       IN  IF ~in.hasKey
           THEN WechatReturn(c, loc, Ret(FALSE, "group key missing"))
           ELSE IF ~in.clientOK
           THEN WechatReturn(c, loc, Ret(FALSE, "client"))
           ELSE /\ wpc' = [wpc EXCEPT ![c] = "check"]
                /\ wloc' = [wloc EXCEPT ![c] = loc]
    /\ UNCHANGED <<accessToken, accessTokenOld, issued, whist>>
    /\ UNCHANGED nonWechatVars

\* Line 753 with a token that is cached and young: no refresh.
WechatCheckCached(c) ==
    /\ wpc[c] = "check"
    /\ ~(accessToken = 0 \/ accessTokenOld)
    /\ wpc' = [wpc EXCEPT ![c] = "message"]
    /\ wloc' = [wloc EXCEPT ![c].found = accessToken, ![c].fresh = TRUE,
                            ![c].after42001 = whist.expired]
    /\ whist' = [whist EXCEPT !.expired = FALSE]
    /\ UNCHANGED <<accessToken, accessTokenOld, issued>>
    /\ UNCHANGED nonWechatVars

\* Lines 753-772: no token or an old one; the gettoken request goes out
\* unless corpsecret or corpid fails to render.
WechatCheckRefresh(c) ==
    /\ wpc[c] = "check"
    /\ accessToken = 0 \/ accessTokenOld
    /\ LET loc == [wloc[c] EXCEPT !.found = accessToken, !.fresh = FALSE,
                                   !.after42001 = whist.expired]
       IN  IF Latch(WechatTokenFields, loc.bad) # "nil"
           THEN WechatReturn(c, loc, Ret(FALSE, "template"))
           ELSE /\ wpc' = [wpc EXCEPT ![c] = "gettoken"]
                /\ wloc' = [wloc EXCEPT
                              ![c] = [loc EXCEPT
                                        !.reqs = Append(@, "gettoken")]]
    /\ whist' = [whist EXCEPT !.expired = FALSE]
    /\ UNCHANGED <<accessToken, accessTokenOld, issued>>
    /\ UNCHANGED nonWechatVars

\* Lines 772-785: gettoken has answered.
WechatToken(c, answer) ==
    /\ wpc[c] = "gettoken"
    /\ IF answer = "token"
       THEN /\ issued' = issued + 1
            /\ wpc' = [wpc EXCEPT ![c] = "store"]
            /\ wloc' = [wloc EXCEPT ![c].got = issued + 1]
       ELSE /\ issued' = issued
            /\ WechatReturn(c, wloc[c],
                   CASE answer = "transport" -> Ret(TRUE, PostError("wechat"))
                     [] answer = "undecodable" -> Ret(FALSE, "decode")
                     [] answer = "empty" -> Ret(FALSE, "invalid secret"))
    /\ UNCHANGED <<accessToken, accessTokenOld, whist>>
    /\ UNCHANGED nonWechatVars

\* Lines 788-789: cache the token.
WechatStore(c) ==
    /\ wpc[c] = "store"
    /\ accessToken' = wloc[c].got
    /\ accessTokenOld' = FALSE
    /\ whist' = [whist EXCEPT
                   !.expired = FALSE,
                   !.overwroteNewer = @ \/ accessToken > wloc[c].found]
    /\ wpc' = [wpc EXCEPT ![c] = "message"]
    /\ UNCHANGED <<issued, wloc>>
    /\ UNCHANGED nonWechatVars

\* Lines 792-823: render the message, put the cached token in the URL, post.
WechatPost(c) ==
    /\ wpc[c] = "message"
    /\ IF Latch(WechatMessageFields, wloc[c].bad) # "nil"
       THEN WechatReturn(c, wloc[c], Ret(FALSE, "template"))
       ELSE /\ wpc' = [wpc EXCEPT ![c] = "send"]
            /\ wloc' = [wloc EXCEPT ![c].sentTok = accessToken,
                                    ![c].reqs = Append(@, "send")]
    /\ UNCHANGED <<accessToken, accessTokenOld, issued, whist>>
    /\ UNCHANGED nonWechatVars

\* Lines 850-851: the answers after which the cached token is cleared.
WechatClearsNever(statusCode, code) == FALSE

WechatClears(statusCode, code) == statusCode = 200 /\ code = "42001"

\* Lines 823-855: message/send has answered.
WechatAnswer(c, a) ==
    /\ wpc[c] = "send"
    /\ LET clears == a.transportOK /\ WechatClears(a.status, a.code)
           loc == [wloc[c] EXCEPT !.resp = a]
       IN  /\ WechatReturn(c, loc,
                  IF a.transportOK THEN WechatResponse(a.status, a.code)
                  ELSE Ret(TRUE, PostError("wechat")))
           /\ accessToken' = IF clears THEN 0 ELSE accessToken
           /\ whist' = [whist EXCEPT
                          !.expired =
                              IF a.transportOK /\ a.status = 200
                                 /\ a.code = "42001" THEN TRUE ELSE @,
                          !.clearedNewer =
                              @ \/ (clears /\ accessToken > wloc[c].sentTok)]
    /\ UNCHANGED <<accessTokenOld, issued>>
    /\ UNCHANGED nonWechatVars

\* Two hours pass since the token was cached.
WechatTokenAges ==
    /\ accessToken # 0
    /\ ~accessTokenOld
    /\ accessTokenOld' = TRUE
    /\ UNCHANGED <<accessToken, issued, wpc, wloc, whist>>
    /\ UNCHANGED nonWechatVars

WechatStep(c) ==
    \/ \E in \in WechatCalls : WechatStart(c, in)
    \/ WechatCheckCached(c)
    \/ WechatCheckRefresh(c)
    \/ \E answer \in TokenAnswers : WechatToken(c, answer)
    \/ WechatStore(c)
    \/ WechatPost(c)
    \/ \E a \in WechatAnswers : WechatAnswer(c, a)

(***************************************************************************)
(* MultitenantAlertmanager.Run and Stop (types.go).  Run loads all configs *)
(* until the store answers, applies them, and then polls for updates on    *)
(* every tick; Stop closes am.stop, waits for am.done and stops the        *)
(* engines in the map.                                                     *)
(***************************************************************************)
\* The configs the store holds for the tenants.
StoreConfigs ==
    {c \in UNION {AlertmanagerConfig(u) : u \in Tenants} :
        /\ c.TemplateFiles = EmptyFn
        /\ c.DeletedAtInUnix = 0
        /\ c.Config = "H1" \/ (c.Config = "Hbad" /\ c.UserID = "u2")
        /\ c.DeactivatedAtInUnix > 0 => c.UserID = "u1"}

\* The lists a poll can return while setConfig calls remain.
Batches ==
    {b \in UNION {[1..n -> StoreConfigs] : n \in 0..MaxBatch} :
        last.n + Len(b) <= MaxCalls}

\* loadOK: GetAllConfigs has succeeded; initial: the length of its list;
\* loadApplied: the setConfig calls addNewConfigs made on that list;
\* updCalled: GetAllUpdatedConfigs has been called; ranged: the tenants the
\* range of Manager.Stop has visited.
NoPolls ==
    [loadOK |-> FALSE, initial |-> -1, loadApplied |-> -1,
     updCalled |-> FALSE, ranged |-> {}]

\* NewMultitenantAlertmanager, and Run started.
RunInit ==
    /\ rpc = "load"
    /\ batch = <<>>
    /\ batchBase = 0
    /\ all = FALSE
    /\ stopCh = FALSE
    /\ doneCh = FALSE
    /\ ticker = "none"
    /\ spc = "idle"
    /\ rhist = NoPolls

\* loadAllConfigs: poll(true) succeeds; addNewConfigs starts on the list.
RunLoadOK(b) ==
    /\ rpc = "load"
    /\ rpc' = "add"
    /\ batch' = b
    /\ batchBase' = last.n
    /\ all' = TRUE
    /\ rhist' = [rhist EXCEPT !.loadOK = TRUE, !.initial = Len(b)]
    /\ UNCHANGED <<stopCh, doneCh, ticker, spc>>
    /\ UNCHANGED <<mgrVars, nonRunVars>>

\* A failed initial load that leaves the retry loop.
RunLoadFailGivesUp ==
    /\ rpc = "load"
    /\ rpc' = "select"
    /\ ticker' = "running"
    /\ UNCHANGED <<batch, batchBase, all, stopCh, doneCh, spc, rhist>>
    /\ UNCHANGED <<mgrVars, nonRunVars>>

\* loadAllConfigs: poll(true) fails; back off.
RunLoadFail ==
    /\ rpc = "load"
    /\ rpc' = "backoff"
    /\ UNCHANGED <<batch, batchBase, all, stopCh, doneCh, ticker, spc, rhist>>
    /\ UNCHANGED <<mgrVars, nonRunVars>>

\* loadAllConfigs: backoff.Wait() is over (its context is never cancelled).
RunBackoff ==
    /\ rpc = "backoff"
    /\ rpc' = "load"
    /\ UNCHANGED <<batch, batchBase, all, stopCh, doneCh, ticker, spc, rhist>>
    /\ UNCHANGED <<mgrVars, nonRunVars>>

\* addNewConfigs: the position in the list, from the setConfig calls made.
Applied == last.n - batchBase

\* addNewConfigs: setConfig on the next config of the list; an error is logged.
RunAdd ==
    /\ rpc = "add"
    /\ Applied < Len(batch)
    /\ setConfig(batch[Applied + 1].UserID, batch[Applied + 1])

\* An addNewConfigs that returns at the first setConfig error.
RunAddDoneAtError ==
    /\ rpc = "add"
    /\ Applied = Len(batch) \/ (Applied > 0 /\ last.ret = "err")
    /\ rpc' = "select"
    /\ ticker' = "running"
    /\ rhist' = IF all THEN [rhist EXCEPT !.loadApplied = Applied] ELSE rhist
    /\ UNCHANGED <<batch, batchBase, all, stopCh, doneCh, spc>>
    /\ UNCHANGED <<mgrVars, nonRunVars>>

\* addNewConfigs is through the list; Run goes (back) to the select.
RunAddDone ==
    /\ rpc = "add"
    /\ Applied = Len(batch)
    /\ rpc' = "select"
    /\ ticker' = "running"
    /\ rhist' = IF all THEN [rhist EXCEPT !.loadApplied = Applied] ELSE rhist
    /\ UNCHANGED <<batch, batchBase, all, stopCh, doneCh, spc>>
    /\ UNCHANGED <<mgrVars, nonRunVars>>

\* case <-ticker.C: updateConfigs, poll(false) succeeds.
RunTickOK(b) ==
    /\ rpc = "select"
    /\ rpc' = "add"
    /\ batch' = b
    /\ batchBase' = last.n
    /\ all' = FALSE
    /\ rhist' = [rhist EXCEPT !.updCalled = TRUE]
    /\ UNCHANGED <<stopCh, doneCh, ticker, spc>>
    /\ UNCHANGED <<mgrVars, nonRunVars>>

\* case <-ticker.C: updateConfigs, poll(false) fails; updateConfigs returns
\* the error.
RunTickFail ==
    /\ rpc = "select"
    /\ rpc' = "failed"
    /\ rhist' = [rhist EXCEPT !.updCalled = TRUE]
    /\ UNCHANGED <<batch, batchBase, all, stopCh, doneCh, ticker, spc>>
    /\ UNCHANGED <<mgrVars, nonRunVars>>

\* An error of updateConfigs that ends Run.
RunTickErrorExits ==
    /\ rpc = "failed"
    /\ rpc' = "exited"
    /\ ticker' = "stopped"
    /\ doneCh' = TRUE
    /\ UNCHANGED <<batch, batchBase, all, stopCh, spc, rhist>>
    /\ UNCHANGED <<mgrVars, nonRunVars>>

\* Run logs the error of updateConfigs and goes round the loop.
RunTickError ==
    /\ rpc = "failed"
    /\ rpc' = "select"
    /\ UNCHANGED <<batch, batchBase, all, stopCh, doneCh, ticker, spc, rhist>>
    /\ UNCHANGED <<mgrVars, nonRunVars>>

\* case <-am.stop: ticker.Stop(), return; the deferred close(am.done) runs.
RunExit ==
    /\ rpc = "select"
    /\ stopCh
    /\ rpc' = "exited"
    /\ ticker' = "stopped"
    /\ doneCh' = TRUE
    /\ UNCHANGED <<batch, batchBase, all, stopCh, spc, rhist>>
    /\ UNCHANGED <<mgrVars, nonRunVars>>

\* Manager.Stop: close(am.stop).
StopSignal ==
    /\ spc = "idle"
    /\ stopCh' = TRUE
    /\ spc' = "wait"
    /\ UNCHANGED <<rpc, batch, batchBase, all, doneCh, ticker, rhist>>
    /\ UNCHANGED <<mgrVars, nonRunVars>>

\* Manager.Stop: <-am.done.
StopWait ==
    /\ spc = "wait"
    /\ doneCh
    /\ spc' = "engines"
    /\ UNCHANGED <<rpc, batch, batchBase, all, stopCh, doneCh, ticker, rhist>>
    /\ UNCHANGED <<mgrVars, nonRunVars>>

\* Manager.Stop: the range over am.alertmanagers calls Stop on the next engine.
StopEngine(u) ==
    /\ spc = "engines"
    /\ u \in DOMAIN alertmanagers
    /\ u \notin rhist.ranged
    /\ engines' = [engines EXCEPT ![alertmanagers[u]] = EngineStop(@)]
    /\ rhist' = [rhist EXCEPT !.ranged = @ \cup {u}]
    /\ UNCHANGED <<alertmanagers, cfgs, disk, last>>
    /\ UNCHANGED <<rpc, batch, batchBase, all, stopCh, doneCh, ticker, spc>>
    /\ UNCHANGED nonRunVars

\* Manager.Stop: the range is over (settleCtxCancel and peer are nil); return.
StopReturn ==
    /\ spc = "engines"
    /\ DOMAIN alertmanagers \subseteq rhist.ranged
    /\ spc' = "returned"
    /\ UNCHANGED <<rpc, batch, batchBase, all, stopCh, doneCh, ticker, rhist>>
    /\ UNCHANGED <<mgrVars, nonRunVars>>

RunStep ==
    \/ \E b \in Batches : RunLoadOK(b)
    \/ RunLoadFail
    \/ RunBackoff
    \/ RunAdd
    \/ RunAddDone
    \/ \E b \in Batches : RunTickOK(b)
    \/ RunTickFail
    \/ RunTickError
    \/ RunExit

StopStep ==
    \/ StopSignal
    \/ StopWait
    \/ \E u \in Tenants : StopEngine(u)
    \/ StopReturn

(***************************************************************************)
(* Client.Watch (pkg/storage/etcd/etcd.go).  A key or a user ID is the     *)
(* sequence of its characters; the words of the key format stand for their *)
(* characters, none of which is a "/".                                     *)
(***************************************************************************)
Chars == {"a", "/"}

\* The user IDs a config can be stored under.
UserIDs == UNION {[1..n -> Chars] : n \in 1..MaxIdLen}

\* keyFmt without its %s.
keyFmt == <<"alertmanager", "/", "configs", "/", "user", "/">>

getKey(usedID) == keyFmt \o usedID

\* strings.Split(s, "/")
RECURSIVE SplitFrom(_, _, _)
SplitFrom(s, cur, st) ==
    IF s = <<>> THEN Append(st, cur)
    ELSE IF Head(s) = "/" THEN SplitFrom(Tail(s), <<>>, Append(st, cur))
    ELSE SplitFrom(Tail(s), Append(cur, Head(s)), st)

Split(s) == SplitFrom(s, <<>>, <<>>)

getUserIDFromKey(key) ==
    LET st == Split(key)
    IN  IF Len(st) >= 4 THEN st[4] ELSE <<>>

\* The configs whose YAML the store holds.
WatchedConfigs ==
    [UserID : UserIDs, Config : {"H1"}, TemplateFiles : {EmptyFn},
     UpdatedAtInUnix : {1}, DeactivatedAtInUnix : {0, 5},
     DeletedAtInUnix : {0}]

\* time.Now().Unix()
Times == {7, 8}

\* The events of the watched prefix: the deletion of a user's key, the put
\* of a value that is the YAML of a config, the put of a value that is not.
StoreEvents ==
    [type : {"delete"}, id : UserIDs, decodes : {FALSE}, doc : {NoConfig}]
    \cup [type : {"put"}, id : {<<"a">>}, decodes : {FALSE}, doc : {NoConfig}]
    \cup {[type |-> "put", id |-> c.UserID, decodes |-> TRUE, doc |-> c] :
             c \in WatchedConfigs}

WatchInit ==
    /\ wevents = <<>>
    /\ wout = <<>>

\* ev.Type == clientv3.EventTypeDelete
WatchDelete(ev, now) ==
    /\ Len(wevents) < MaxStoreEvents
    /\ ev.type = "delete"
    /\ wevents' = Append(wevents, ev)
    /\ wout' = Append(wout, [NoConfig EXCEPT
                               !.UserID = getUserIDFromKey(getKey(ev.id)),
                               !.DeletedAtInUnix = now])
    /\ UNCHANGED nonWatchVars

\* A put whose value yaml.Unmarshal decodes.
WatchPut(ev) ==
    /\ Len(wevents) < MaxStoreEvents
    /\ ev.type = "put"
    /\ ev.decodes
    /\ wevents' = Append(wevents, ev)
    /\ wout' = Append(wout, ev.doc)
    /\ UNCHANGED nonWatchVars

\* A put whose value yaml.Unmarshal rejects: logged, nothing sent.
WatchPutUndecodable(ev) ==
    /\ Len(wevents) < MaxStoreEvents
    /\ ev.type = "put"
    /\ ~ev.decodes
    /\ wevents' = Append(wevents, ev)
    /\ wout' = wout
    /\ UNCHANGED nonWatchVars

WatchStep ==
    \E ev \in StoreEvents :
        \/ \E now \in Times : WatchDelete(ev, now)
        \/ WatchPut(ev)
        \/ WatchPutUndecodable(ev)

(***************************************************************************)
(* One Alertmanager part by part (alertmanager.go): the dispatcher, the    *)
(* alert store, the stop channel, the wait group, and the goroutines       *)
(* NewAlertmanager starts: the notification log's maintenance, the         *)
(* silences' maintenance and the loop that drains web reload requests.     *)
(***************************************************************************)
MaxApplies == 2

\* NewAlertmanager: both maintenance tasks are counted in am.wg; am.dispatcher
\* and am.inhibitor are nil.  dispatchers, inhibitors: how many of each have
\* been run and not stopped; nilStops: the Stop calls made on a nil handle;
\* applies: the ApplyConfig calls (history).
NewEngine ==
    [pc |-> "idle", dispatcher |-> "none", inhibitor |-> "none",
     alerts |-> "open", stop |-> FALSE,
     wg |-> 2, nflog |-> "running", silences |-> "running",
     reload |-> "running", dispatchers |-> 0, inhibitors |-> 0,
     nilStops |-> 0, applies |-> 0]

EngInit == eng = [u \in Tenants |-> NewEngine]

\* The Stop calls on nil handles among am.inhibitor.Stop() and
\* am.dispatcher.Stop().
NilHandles(e) ==
    (IF e.inhibitor = "none" THEN 1 ELSE 0)
        + (IF e.dispatcher = "none" THEN 1 ELSE 0)

\* ApplyConfig: Stop is called on am.inhibitor and am.dispatcher, whatever
\* they are; a new inhibitor and a new dispatcher are made and run.
EngApplyConfig(u) ==
    /\ eng[u].pc = "idle"
    /\ eng[u].applies < MaxApplies
    /\ eng' = [eng EXCEPT
                 ![u].nilStops = @ + NilHandles(eng[u]),
                 ![u].dispatchers =
                     (IF eng[u].dispatcher = "running" THEN @ - 1 ELSE @) + 1,
                 ![u].inhibitors =
                     (IF eng[u].inhibitor = "running" THEN @ - 1 ELSE @) + 1,
                 ![u].dispatcher = "running",
                 ![u].inhibitor = "running",
                 ![u].applies = @ + 1]
    /\ UNCHANGED nonEngVars

\* The notification log's maintenance: a tick starts a garbage collection
\* and snapshot.
NflogTick(u) ==
    /\ eng[u].nflog = "running"
    /\ eng' = [eng EXCEPT ![u].nflog = "maintaining"]
    /\ UNCHANGED nonEngVars

NflogTickDone(u) ==
    /\ eng[u].nflog = "maintaining"
    /\ eng' = [eng EXCEPT ![u].nflog = "running"]
    /\ UNCHANGED nonEngVars

\* The notification log's maintenance sees am.stop closed and leaves its loop
\* for the last snapshot.
NflogStop(u) ==
    /\ eng[u].nflog = "running"
    /\ eng[u].stop
    /\ eng' = [eng EXCEPT ![u].nflog = "last snapshot"]
    /\ UNCHANGED nonEngVars

\* The notification log's maintenance returns: am.wg.Done.
NflogDone(u) ==
    /\ eng[u].nflog = "last snapshot"
    /\ eng' = [eng EXCEPT ![u].nflog = "done", ![u].wg = @ - 1]
    /\ UNCHANGED nonEngVars

\* silences.Maintenance: a tick starts a garbage collection and snapshot.
SilencesTick(u) ==
    /\ eng[u].silences = "running"
    /\ eng' = [eng EXCEPT ![u].silences = "maintaining"]
    /\ UNCHANGED nonEngVars

SilencesTickDone(u) ==
    /\ eng[u].silences = "maintaining"
    /\ eng' = [eng EXCEPT ![u].silences = "running"]
    /\ UNCHANGED nonEngVars

\* silences.Maintenance sees am.stop closed and leaves its loop for the last
\* snapshot.
SilencesStop(u) ==
    /\ eng[u].silences = "running"
    /\ eng[u].stop
    /\ eng' = [eng EXCEPT ![u].silences = "last snapshot"]
    /\ UNCHANGED nonEngVars

\* silences.Maintenance returns and the goroutine calls am.wg.Done.
SilencesDone(u) ==
    /\ eng[u].silences = "last snapshot"
    /\ eng' = [eng EXCEPT ![u].silences = "done", ![u].wg = @ - 1]
    /\ UNCHANGED nonEngVars

\* The web reload loop takes case <-am.stop.
ReloadExit(u) ==
    /\ eng[u].reload = "running"
    /\ eng[u].stop
    /\ eng' = [eng EXCEPT ![u].reload = "exited"]
    /\ UNCHANGED nonEngVars

\* Stop: am.dispatcher.Stop() (nothing to stop before the first ApplyConfig).
EngStopDispatcher(u) ==
    /\ eng[u].pc = "idle"
    /\ eng' = [eng EXCEPT ![u].pc = "dispatcher stopped",
                          ![u].nilStops =
                              IF eng[u].dispatcher = "none" THEN @ + 1 ELSE @,
                          ![u].dispatchers =
                              IF eng[u].dispatcher = "running" THEN @ - 1 ELSE @,
                          ![u].dispatcher =
                              IF @ = "running" THEN "stopped" ELSE @]
    /\ UNCHANGED nonEngVars

\* Stop: am.alerts.Close().
EngStopAlerts(u) ==
    /\ eng[u].pc = "dispatcher stopped"
    /\ eng' = [eng EXCEPT ![u].pc = "alerts closed", ![u].alerts = "closed"]
    /\ UNCHANGED nonEngVars

\* Stop: close(am.stop).
EngStopClose(u) ==
    /\ eng[u].pc = "alerts closed"
    /\ eng' = [eng EXCEPT ![u].pc = "waiting", ![u].stop = TRUE]
    /\ UNCHANGED nonEngVars

\* A Stop that returns without waiting for the wait group.
EngStopWaitSkipped(u) ==
    /\ eng[u].pc = "waiting"
    /\ eng' = [eng EXCEPT ![u].pc = "returned"]
    /\ UNCHANGED nonEngVars

\* Stop: am.wg.Wait() returns once the count is 0.
EngStopWait(u) ==
    /\ eng[u].pc = "waiting"
    /\ eng[u].wg = 0
    /\ eng' = [eng EXCEPT ![u].pc = "returned"]
    /\ UNCHANGED nonEngVars

EngStep(u) ==
    \/ EngApplyConfig(u)
    \/ NflogTick(u)
    \/ NflogTickDone(u)
    \/ NflogStop(u)
    \/ NflogDone(u)
    \/ SilencesTick(u)
    \/ SilencesTickDone(u)
    \/ SilencesStop(u)
    \/ SilencesDone(u)
    \/ ReloadExit(u)
    \/ EngStopDispatcher(u)
    \/ EngStopAlerts(u)
    \/ EngStopClose(u)
    \/ EngStopWait(u)

(***************************************************************************)
(* MultitenantAlertmanager.ServeHTTP (types.go) while setConfig changes    *)
(* the engines map.                                                        *)
(***************************************************************************)
\* What a request carries as X-AppsCode-UserID: no header, an empty one, a
\* tenant, a user without an engine.
Headers == {"absent", "", "u3"} \cup Tenants

\* r.Header.Get(UserIDHeaderName)
HeaderGet(header) == IF header = "absent" THEN "" ELSE header

\* status: the answer of ServeHTTP itself, 0 when it has given none;
\* to: the engine whose mux was handed the request, 0 when none was;
\* had, was: whether the map held the user ID at the lookup, and what engine.
NoRequest ==
    [pc |-> "idle", header |-> "absent", userID |-> "", userAM |-> 0,
     status |-> 0, to |-> 0, had |-> FALSE, was |-> 0]

ServeInit == http = NoRequest

\* ExtractUserIDFromHTTPRequest; 401 when it fails.
ServeExtract(header) ==
    /\ http.pc \in {"idle", "done"}
    /\ http' = IF HeaderGet(header) = ""
               THEN [NoRequest EXCEPT !.pc = "done", !.header = header,
                                      !.status = 401]
               ELSE [NoRequest EXCEPT !.pc = "lookup", !.header = header,
                                      !.userID = HeaderGet(header)]
    /\ UNCHANGED nonServeVars

\* A lookup that takes whatever engine the map holds first.
LookupAny(m, userID) ==
    IF DOMAIN m # {}
    THEN [ok |-> TRUE, userAM |-> m[CHOOSE u \in DOMAIN m : TRUE]]
    ELSE [ok |-> FALSE, userAM |-> 0]

\* userAM, ok := am.alertmanagers[userID]
Lookup(m, userID) ==
    IF userID \in DOMAIN m
    THEN [ok |-> TRUE, userAM |-> m[userID]]
    ELSE [ok |-> FALSE, userAM |-> 0]

\* The lookup under alertmanagersMtx; 404 when the map has no entry.
ServeLookup ==
    /\ http.pc = "lookup"
    /\ LET l == Lookup(alertmanagers, http.userID)
           h == [http EXCEPT !.had = http.userID \in DOMAIN alertmanagers,
                             !.was = EngineOf(http.userID)]
       IN  http' = IF l.ok
                   THEN [h EXCEPT !.pc = "forward", !.userAM = l.userAM]
                   ELSE [h EXCEPT !.pc = "done", !.status = 404]
    /\ UNCHANGED nonServeVars

\* userAM.mux.ServeHTTP(w, req), outside the lock.
ServeForward ==
    /\ http.pc = "forward"
    /\ http' = [http EXCEPT !.pc = "done", !.to = http.userAM]
    /\ UNCHANGED nonServeVars

ServeStep ==
    \/ \E header \in Headers : ServeExtract(header)
    \/ ServeLookup
    \/ ServeForward

(***************************************************************************)
(* setConfig lock by lock (types.go 289-354): am.cfgMutex is taken on      *)
(* entry and released by the deferred Unlock on return; alertmanagersMtx   *)
(* is taken around each access to am.alertmanagers.  ServeHTTP takes       *)
(* alertmanagersMtx for its lookup.  The maps are kept as what the locks   *)
(* guard: the tenants with an engine and each tenant's cached config text. *)
(***************************************************************************)
\* What a call is given: the config is deactivated or deleted; its text;
\* whether a template file changed; whether ApplyConfig succeeds.
LockedCalls ==
    [off : BOOLEAN, text : ConfigTexts, changed : BOOLEAN, applyOK : BOOLEAN]

NoLockedCall ==
    [off |-> FALSE, text |-> "", changed |-> FALSE, applyOK |-> FALSE]

\* op: the blocking call setConfig is inside, "none" outside any.
LkInit ==
    lk = [pc |-> "idle", cfgMutex |-> "free", alertmanagersMtx |-> "free",
          op |-> "none", u |-> "", in |-> NoLockedCall, hasExisting |-> FALSE,
          ams |-> {}, texts |-> [u \in Tenants |-> ""], serve |-> "idle"]

\* The deferred Unlocks run: setConfig returns.
LkReturned(l) ==
    [l EXCEPT !.pc = "idle", !.cfgMutex = "free",
              !.alertmanagersMtx =
                  IF @ = "setConfig" THEN "free" ELSE @,
              !.op = "none"]

\* 294: am.cfgMutex.Lock()
LkEnter(u, in) ==
    /\ lk.pc = "idle"
    /\ lk.cfgMutex = "free"
    /\ lk' = [lk EXCEPT !.pc = "entered", !.cfgMutex = "setConfig",
                        !.u = u, !.in = in, !.hasExisting = FALSE]
    /\ UNCHANGED nonLkVars

\* 297-298: the config is off; am.alertmanagersMtx.Lock()
LkOffLock ==
    /\ lk.pc = "entered"
    /\ lk.in.off
    /\ lk.alertmanagersMtx = "free"
    /\ lk' = [lk EXCEPT !.pc = "off locked", !.alertmanagersMtx = "setConfig"]
    /\ UNCHANGED nonLkVars

\* 299-300: a.Stop() is called if the tenant has an engine.
LkOffStop ==
    /\ lk.pc = "off locked"
    /\ lk' = IF lk.u \in lk.ams
             THEN [lk EXCEPT !.pc = "stopping", !.op = "Stop"]
             ELSE [lk EXCEPT !.pc = "off done"]
    /\ UNCHANGED nonLkVars

\* 300-301: a.Stop() has returned; delete(am.alertmanagers, userID)
LkOffStopped ==
    /\ lk.pc = "stopping"
    /\ lk' = [lk EXCEPT !.pc = "off done", !.op = "none",
                        !.ams = @ \ {lk.u}]
    /\ UNCHANGED nonLkVars

\* 303-308: am.alertmanagersMtx.Unlock(), delete(am.cfgs, userID), return.
LkOffReturn ==
    /\ lk.pc = "off done"
    /\ lk' = LkReturned([lk EXCEPT !.texts[lk.u] = ""])
    /\ UNCHANGED nonLkVars

\* 311-312: am.alertmanagersMtx.Lock(); hasExisting
LkCheckLock ==
    /\ lk.pc = "entered"
    /\ ~lk.in.off
    /\ lk.alertmanagersMtx = "free"
    /\ lk' = [lk EXCEPT !.pc = "checking", !.alertmanagersMtx = "setConfig",
                        !.hasExisting = lk.u \in lk.ams]
    /\ UNCHANGED nonLkVars

\* 313, 319-320: am.alertmanagersMtx.Unlock(); the template files are written.
LkCheckUnlock ==
    /\ lk.pc = "checking"
    /\ lk' = [lk EXCEPT !.pc = "writing", !.alertmanagersMtx = "free",
                        !.op = "template files"]
    /\ UNCHANGED nonLkVars

\* 319-333: the files are written; amconfig.Load, returning on a failure.
LkLoad ==
    /\ lk.pc = "writing"
    /\ lk' = IF amconfigLoadOK(lk.in.text)
             THEN [lk EXCEPT !.pc = "loaded", !.op = "none"]
             ELSE LkReturned(lk)
    /\ UNCHANGED nonLkVars

\* 335: am.alertmanagersMtx.Lock()
LkApplyLock ==
    /\ lk.pc = "loaded"
    /\ lk.alertmanagersMtx = "free"
    /\ lk' = [lk EXCEPT !.pc = "apply locked",
                        !.alertmanagersMtx = "setConfig"]
    /\ UNCHANGED nonLkVars

\* 338-347: newAlertmanager, ApplyConfig, or neither.
LkBranch ==
    /\ lk.pc = "apply locked"
    /\ lk' = IF ~lk.hasExisting
             THEN [lk EXCEPT !.pc = "creating", !.op = "NewAlertmanager"]
             ELSE IF lk.texts[lk.u] # lk.in.text \/ lk.in.changed
             THEN [lk EXCEPT !.pc = "applying", !.op = "ApplyConfig"]
             ELSE LkReturned(lk)
    /\ UNCHANGED nonLkVars

\* 339-344: newAlertmanager has returned.
LkCreated ==
    /\ lk.pc = "creating"
    /\ lk' = IF lk.in.applyOK
             THEN LkReturned([lk EXCEPT !.ams = @ \cup {lk.u},
                                        !.texts[lk.u] = lk.in.text])
             ELSE LkReturned(lk)
    /\ UNCHANGED nonLkVars

\* 347-351: ApplyConfig has returned.
LkApplied ==
    /\ lk.pc = "applying"
    /\ lk' = IF lk.in.applyOK
             THEN LkReturned([lk EXCEPT !.texts[lk.u] = lk.in.text])
             ELSE LkReturned(lk)
    /\ UNCHANGED nonLkVars

\* ServeHTTP 386: am.alertmanagersMtx.Lock()
LkServeLock ==
    /\ lk.serve = "idle"
    /\ lk.alertmanagersMtx = "free"
    /\ lk' = [lk EXCEPT !.serve = "locked", !.alertmanagersMtx = "ServeHTTP"]
    /\ UNCHANGED nonLkVars

\* ServeHTTP 387-388: the lookup; am.alertmanagersMtx.Unlock()
LkServeUnlock ==
    /\ lk.serve = "locked"
    /\ lk' = [lk EXCEPT !.serve = "idle", !.alertmanagersMtx = "free"]
    /\ UNCHANGED nonLkVars

LkNext ==
    \/ \E u \in Tenants : \E in \in LockedCalls : LkEnter(u, in)
    \/ LkOffLock
    \/ LkOffStop
    \/ LkOffStopped
    \/ LkOffReturn
    \/ LkCheckLock
    \/ LkCheckUnlock
    \/ LkLoad
    \/ LkApplyLock
    \/ LkBranch
    \/ LkCreated
    \/ LkApplied
    \/ LkServeLock
    \/ LkServeUnlock

(***************************************************************************)
(* The admin API's deactivate, restore and set requests (api.go) on the    *)
(* etcd client (etcd.go).  The store is the map from the keys under the    *)
(* prefix to the configs whose YAML they hold; yaml.Marshal followed by    *)
(* yaml.Unmarshal gives the config back (omitted zero fields decode as     *)
(* zero).  A user ID is the sequence of its characters, <<>> the empty     *)
(* string.                                                                 *)
(***************************************************************************)
AdminUsers == {<<"a">>}

\* The zero AlertmanagerConfig.
ZeroConfig == [NoConfig EXCEPT !.UserID = <<>>]

\* The configs API.setConfig stores for a user: valid text, valid templates.
AdminConfigs(u) ==
    [UserID : {u}, Config : {"H1"},
     TemplateFiles : {EmptyFn, FnA :> "T1"},
     UpdatedAtInUnix : Times, DeactivatedAtInUnix : {0}, DeletedAtInUnix : {0}]

NoAdmin ==
    [kv |-> <<>>, pc |-> "idle", op |-> "none", u |-> <<>>, rg |-> ZeroConfig, resp |-> 0,
     pre |-> <<>>,
     prev |-> [op |-> "none", u |-> <<>>, resp |-> 0, had |-> FALSE,
               orig |-> ZeroConfig]]

\* kv: the store; pc, op, u, rg: the request in hand and the config it read;
\* resp: the status it was answered with; pre: the store when it started;
\* prev: the request before it, whether its tenant had a stored config when
\* it started, and that config.
StoreInit == store = NoAdmin

\* Client.get: the zero config when the key is not there.
StoreGet(kv, key) == IF key \in DOMAIN kv THEN kv[key] ELSE ZeroConfig

\* Client.put: under the key of the config's own user ID.
StorePut(kv, amCfg) ==
    [k \in DOMAIN kv \cup {getKey(amCfg.UserID)} |->
        IF k = getKey(amCfg.UserID) THEN amCfg ELSE kv[k]]

\* A deactivation that also drops the template files.
DeactivatedWithoutTemplates(amCfg, now) ==
    [amCfg EXCEPT !.DeactivatedAtInUnix = now, !.UpdatedAtInUnix = now,
                  !.TemplateFiles = EmptyFn]

\* DeactivateConfig 68-69
Deactivated(amCfg, now) ==
    [amCfg EXCEPT !.DeactivatedAtInUnix = now, !.UpdatedAtInUnix = now]

\* RestoreConfig 84-85
Restored(amCfg, now) ==
    [amCfg EXCEPT !.DeactivatedAtInUnix = 0, !.UpdatedAtInUnix = now]

\* A request starts: what the one before it did is kept.
AdminStart(op, u) ==
    [store EXCEPT !.op = op, !.u = u, !.rg = ZeroConfig, !.resp = 0,
                  !.pre = store.kv,
                  !.prev = [op |-> store.op, u |-> store.u,
                            resp |-> store.resp,
                            had |-> getKey(store.u) \in DOMAIN store.pre,
                            orig |-> StoreGet(store.pre, getKey(store.u))]]

\* A request without the user ID header: 401.
AdminUnauthorized(op) ==
    /\ store.pc = "idle"
    /\ store' = [AdminStart(op, <<>>) EXCEPT !.resp = 401]
    /\ UNCHANGED nonStoreVars

\* API.setConfig with a valid body: the config is stored under the user.
AdminSetConfig(u, cfg, putOK) ==
    /\ store.pc = "idle"
    /\ store' = IF putOK
                THEN [AdminStart("set", u) EXCEPT
                        !.kv = StorePut(store.kv, cfg), !.resp = 204]
                ELSE [AdminStart("set", u) EXCEPT !.resp = 500]
    /\ UNCHANGED nonStoreVars

\* API.deactivateConfig / restoreConfig, up to the client's GetConfig.
AdminRead(op, u, getOK) ==
    /\ store.pc = "idle"
    /\ op \in {"deactivate", "restore"}
    /\ store' = IF getOK
                THEN [AdminStart(op, u) EXCEPT
                        !.pc = "read", !.rg = StoreGet(store.kv, getKey(u))]
                ELSE [AdminStart(op, u) EXCEPT !.resp = 500]
    /\ UNCHANGED nonStoreVars

\* DeactivateConfig / RestoreConfig from the modification on, and the answer.
AdminWrite(putOK, now) ==
    /\ store.pc = "read"
    /\ LET amCfg == IF store.op = "deactivate"
                    THEN Deactivated(store.rg, now)
                    ELSE Restored(store.rg, now)
       IN  store' = IF putOK
                    THEN [store EXCEPT !.pc = "idle", !.resp = 200,
                                       !.kv = StorePut(store.kv, amCfg)]
                    ELSE [store EXCEPT !.pc = "idle", !.resp = 500]
    /\ UNCHANGED nonStoreVars

StoreNext ==
    \/ \E op \in {"set", "deactivate", "restore"} : AdminUnauthorized(op)
    \/ \E u \in AdminUsers : \E cfg \in AdminConfigs(u) :
           \E putOK \in BOOLEAN : AdminSetConfig(u, cfg, putOK)
    \/ \E op \in {"deactivate", "restore"} : \E u \in AdminUsers :
           \E getOK \in BOOLEAN : AdminRead(op, u, getOK)
    \/ \E putOK \in BOOLEAN : \E now \in Times : AdminWrite(putOK, now)

(***************************************************************************)
(* The template files of a config, name by name: where createTemplatesFile *)
(* writes one and where ApplyConfig reads it.  Names are relative paths,   *)
(* segment by segment.                                                     *)
(***************************************************************************)
FnUpOther == <<"..", "u2", "a.tmpl">>
FnUpUp == <<"..", "..", "a.tmpl">>
FnSubUp == <<"sub", "..", "a.tmpl">>

TemplateNames == {FnA, FnDotA, FnSubB, FnUpOther, FnUpUp, FnSubUp}

\* {data_dir}/templates/u
TenantTemplateDir(u) == DataDir \o <<"templates", u>>

\* ApplyConfig: the file it hands to template.FromGlobs for template t.
TemplateLoadPath(u, t) == Join(TenantTemplateDir(u), t)

TpInit ==
    tp = [disk |-> EmptyFn, before |-> EmptyFn, u |-> "", fn |-> <<>>,
          content |-> ""]

\* One turn of setConfig's loop over config.TemplateFiles.
TpWrite(u, fn, content) ==
    /\ tp' = [disk |-> createTemplatesFile(tp.disk, u, fn, content).disk,
              before |-> tp.disk, u |-> u, fn |-> fn, content |-> content]
    /\ UNCHANGED nonTpVars

TpNext ==
    \E u \in Tenants : \E fn \in TemplateNames : \E content \in {"T1", "T2"} :
        TpWrite(u, fn, content)

(***************************************************************************)
(* truncate.  A string is the sequence of its bytes: "a" and "." are       *)
(* ASCII, C3 A9 is the two-byte encoding of one code point, EF BF BD the   *)
(* three-byte encoding of U+FFFD, and a byte that starts no encoding is    *)
(* decoded as U+FFFD; every other byte is an ASCII character.              *)
(***************************************************************************)
MaxStrLen == 5
MaxN == 4

Bytes == {"a", "C3", "A9"}

Strings == UNION {[1..k -> Bytes] : k \in 0..MaxStrLen}

\* The bytes the decoder consumes at the head of s and the rune they give.
DecodeRune(s) ==
    IF s[1] \notin {"C3", "A9", "EF", "BF", "BD"}
    THEN [rune |-> s[1], size |-> 1]
    ELSE IF Len(s) >= 2 /\ s[1] = "C3" /\ s[2] = "A9"
         THEN [rune |-> "e9", size |-> 2]
    ELSE IF Len(s) >= 3 /\ s[1] = "EF" /\ s[2] = "BF" /\ s[3] = "BD"
         THEN [rune |-> "fffd", size |-> 3]
    ELSE [rune |-> "fffd", size |-> 1]

\* The decoder's loop over a short string.
RECURSIVE RunesLoop(_)
RunesLoop(s) ==
    IF s = <<>> THEN <<>>
    ELSE LET d == DecodeRune(s)
         IN  <<d.rune>> \o RunesLoop(SubSeq(s, d.size + 1, Len(s)))

\* Byte i of s is consumed together with the bytes before it: the loop
\* starts no rune there.  (C3 and EF are never consumed that way.)
Continues(s, i) ==
    \/ i > 1 /\ s[i] = "A9" /\ s[i - 1] = "C3"
    \/ i > 1 /\ i < Len(s) /\ s[i] = "BF" /\ s[i - 1] = "EF" /\ s[i + 1] = "BD"
    \/ i > 2 /\ s[i] = "BD" /\ s[i - 1] = "BF" /\ s[i - 2] = "EF"

\* The runes of bytes i..j of s, where the loop starts a rune at i and at
\* j + 1: a long stretch is decoded as two halves that meet where a rune
\* starts, which gives what the loop gives.
RECURSIVE RunesOf(_, _, _)
RunesOf(s, i, j) ==
    IF j - i < 2 THEN RunesLoop(SubSeq(s, i, j))
    ELSE LET m == (i + j) \div 2
             k == CHOOSE x \in m..(m + 2) :
                      /\ x > j \/ ~Continues(s, x)
                      /\ \A y \in m..(x - 1) : y <= j /\ Continues(s, y)
         IN  IF k > j THEN RunesLoop(SubSeq(s, i, j))
             ELSE RunesOf(s, i, k - 1) \o RunesOf(s, k, j)

\* []rune(s)
Runes(s) == RunesOf(s, 1, Len(s))

EncodeRune(r) ==
    IF r = "e9" THEN <<"C3", "A9">>
    ELSE IF r = "fffd" THEN <<"EF", "BF", "BD">>
    ELSE <<r>>

\* The encoding of runes i..j of r, half by half.
RECURSIVE StringOf(_, _, _)
StringOf(r, i, j) ==
    IF i > j THEN <<>>
    ELSE IF i = j THEN EncodeRune(r[i])
    ELSE StringOf(r, i, (i + j) \div 2) \o StringOf(r, (i + j) \div 2 + 1, j)

\* string(r)
RunesToString(r) == StringOf(r, 1, Len(r))

\* A truncate that counts and cuts bytes.
truncateBytes(s, n) ==
    IF Len(s) <= n THEN [s |-> s, truncated |-> FALSE]
    ELSE IF n <= 3 THEN [s |-> SubSeq(s, 1, n), truncated |-> TRUE]
    ELSE [s |-> SubSeq(s, 1, n - 3) \o <<".", ".", ".">>, truncated |-> TRUE]

\* A truncate that appends the ellipsis whatever n is.
truncateAlwaysEllipsis(s, n) ==
    LET r == Runes(s)
    IN  IF Len(r) <= n THEN [s |-> s, truncated |-> FALSE]
        ELSE IF n <= 3
             THEN [s |-> RunesToString(SubSeq(r, 1, n)) \o <<".", ".", ".">>,
                   truncated |-> TRUE]
        ELSE [s |-> RunesToString(SubSeq(r, 1, n - 3)) \o <<".", ".", ".">>,
              truncated |-> TRUE]

truncate(s, n) ==
    LET r == Runes(s)
    IN  IF Len(r) <= n THEN [s |-> s, truncated |-> FALSE]
        ELSE IF n <= 3
             THEN [s |-> RunesToString(SubSeq(r, 1, n)), truncated |-> TRUE]
        ELSE [s |-> RunesToString(SubSeq(r, 1, n - 3)) \o <<".", ".", ".">>,
              truncated |-> TRUE]

\* s, n: the arguments; out, flag: what truncate(s, n) returned; out2,
\* flag2: what truncate(out, n) returned.
TrInit ==
    tr = [pc |-> "idle", s |-> <<>>, n |-> 0, out |-> <<>>, flag |-> FALSE,
          out2 |-> <<>>, flag2 |-> FALSE]

TrCall(s, n) ==
    /\ tr.pc = "idle"
    /\ LET t == truncate(s, n)
       IN  tr' = [pc |-> "once", s |-> s, n |-> n, out |-> t.s,
                  flag |-> t.truncated, out2 |-> <<>>, flag2 |-> FALSE]
    /\ UNCHANGED nonTrVars

TrAgain ==
    /\ tr.pc = "once"
    /\ LET t == truncate(tr.out, tr.n)
       IN  tr' = [tr EXCEPT !.pc = "twice", !.out2 = t.s, !.flag2 = t.truncated]
    /\ UNCHANGED nonTrVars

TrNext ==
    \/ \E s \in Strings : \E n \in 0..MaxN : TrCall(s, n)
    \/ TrAgain

(***************************************************************************)
(* tmplText / tmplHTML: the renderers of one Notify call and the error     *)
(* variable they share.  The error of rendering a template is named after  *)
(* the template; "nil" is no error.                                        *)
(***************************************************************************)
MaxRenders == 3

TemplateFields == {"f1", "f2", "f3"}

\* kind: whose Notify it is; err: the error variable; log: the render calls
\* so far; first: the first error a render call gave (history); surfaced:
\* what the check of the error variable returned.
TmInit ==
    tm = [kind |-> "none", pc |-> "idle", err |-> "nil", log |-> <<>>,
          first |-> "nil", surfaced |-> "nil"]

\* `var err error` and the renderers over &err.
TmStart(kind) ==
    /\ tm.pc \in {"idle", "done"}
    /\ tm' = [kind |-> kind, pc |-> "render", err |-> "nil", log |-> <<>>,
              first |-> "nil", surfaced |-> "nil"]
    /\ UNCHANGED nonTmVars

\* The closure tmplText and tmplHTML return, called with name; ok: the
\* template renders.
Render(err, name, ok) ==
    IF err # "nil"
    THEN [s |-> "", err |-> err, evaluated |-> FALSE]
    ELSE [s |-> IF ok THEN name ELSE "", err |-> IF ok THEN "nil" ELSE name,
          evaluated |-> TRUE]

\* One call of a renderer (fn: "text" or "html") in a Notify.
TmRender(fn, name, ok) ==
    /\ tm.pc = "render"
    /\ Len(tm.log) < (IF tm.kind = "victorops" THEN 1 ELSE MaxRenders)
    /\ LET r == Render(tm.err, name, ok)
       IN  tm' = [tm EXCEPT
                   !.err = r.err,
                   !.log = Append(@, [fn |-> fn, name |-> name, s |-> r.s,
                                      evaluated |-> r.evaluated,
                                      after |-> tm.first]),
                   !.first = IF @ = "nil" THEN r.err ELSE @]
    /\ UNCHANGED nonTmVars

\* VictorOps.Notify: c, err := commoncfg.NewClientFromConfig(...).
TmVictorOpsClient(ok) ==
    /\ tm.pc = "render" /\ tm.kind = "victorops"
    /\ Len(tm.log) = 1
    /\ tm' = [tm EXCEPT !.pc = "client", !.err = IF ok THEN "nil" ELSE "client"]
    /\ UNCHANGED nonTmVars

\* if err != nil { return false, err }
TmCheck ==
    /\ \/ tm.pc = "render" /\ tm.kind = "plain"
       \/ tm.pc = "client"
    /\ tm' = [tm EXCEPT !.pc = "done", !.surfaced = tm.err]
    /\ UNCHANGED nonTmVars

TmNext ==
    \/ \E kind \in {"plain", "victorops"} : TmStart(kind)
    \/ \E fn \in {"text", "html"} : \E name \in TemplateFields :
           \E ok \in BOOLEAN : TmRender(fn, name, ok)
    \/ \E ok \in BOOLEAN : TmVictorOpsClient(ok)
    \/ TmCheck

(***************************************************************************)
(* The timeout function ApplyConfig hands to the dispatcher.  A            *)
(* time.Duration is an int64 count of nanoseconds, and so is the int a     *)
(* peer position is converted to: here the eight bytes of its two's        *)
(* complement, least significant first, with the arithmetic of the machine *)
(* (sums and products modulo 2^64).                                        *)
(***************************************************************************)
RECURSIVE NatBytes(_, _)
NatBytes(n, k) ==
    IF k = 0 THEN <<>> ELSE <<n % 256>> \o NatBytes(n \div 256, k - 1)

\* The int64 of a natural number below 2^31.
Int64(n) == NatBytes(n, 8)

RECURSIVE AddFrom(_, _, _, _)
AddFrom(a, b, i, carry) ==
    IF i > 8 THEN <<>>
    ELSE LET t == a[i] + b[i] + carry
         IN  <<t % 256>> \o AddFrom(a, b, i + 1, t \div 256)

\* a + b in int64.
Add64(a, b) == AddFrom(a, b, 1, 0)

\* -a in int64.
Neg64(a) == Add64([i \in 1..8 |-> 255 - a[i]], Int64(1))

\* a * m * 256^(i-1) in int64, for a byte m, from byte j of a on.
RECURSIVE MulByteFrom(_, _, _, _, _)
MulByteFrom(a, m, i, j, carry) ==
    IF i + j - 1 > 8 THEN <<>>
    ELSE LET t == a[j] * m + carry
         IN  <<t % 256>> \o MulByteFrom(a, m, i, j + 1, t \div 256)

MulByte(a, m, i) == [k \in 1..(i - 1) |-> 0] \o MulByteFrom(a, m, i, 1, 0)

RECURSIVE MulFrom(_, _, _)
MulFrom(a, b, i) ==
    IF i > 8 THEN Int64(0)
    ELSE Add64(MulByte(a, b[i], i), MulFrom(a, b, i + 1))

\* a * b in int64.
Mul64(a, b) == MulFrom(a, b, 1)

Negative64(a) == a[8] >= 128

\* The most significant byte in which a and b differ; 0 when a = b.
TopDiff(a, b) ==
    IF a = b THEN 0
    ELSE CHOOSE i \in 1..8 : a[i] # b[i] /\ \A j \in (i + 1)..8 : a[j] = b[j]

\* a < b in int64.
Less64(a, b) ==
    IF Negative64(a) # Negative64(b) THEN Negative64(a)
    ELSE a # b /\ a[TopDiff(a, b)] < b[TopDiff(a, b)]

\* time.Second
Second == Int64(1000000000)

\* notify.MinTimeout
MinTimeout == Mul64(Int64(10), Second)

\* The peer timeout ApplyConfig gives clusterWait: 15*time.Second.
PeerWait == Mul64(Int64(15), Second)

MaxInt64 == [i \in 1..8 |-> IF i = 8 THEN 127 ELSE 255]

\* clusterWait(p, timeout)(): one timeout for each position.
clusterWait(position, timeout) == Mul64(position, timeout)

\* waitFunc: 0 without a peer.
waitFunc(hasPeer, position) ==
    IF hasPeer THEN clusterWait(position, PeerWait) ELSE Int64(0)

\* timeoutFunc
timeoutFunc(d, hasPeer, position) ==
    Add64(IF Less64(d, MinTimeout) THEN MinTimeout ELSE d,
          waitFunc(hasPeer, position))

\* The durations asked for: around the floor, and the largest there are.
Durations ==
    {Int64(0), Int64(1), Add64(MinTimeout, Neg64(Int64(1))), MinTimeout,
     Add64(MinTimeout, Int64(1)), Mul64(Int64(30), Second),
     Mul64(Int64(3600), Second), Mul64(Int64(86400), Second),
     Add64(MaxInt64, Neg64(Mul64(Int64(30), Second))),
     Add64(MaxInt64, Neg64(PeerWait)),
     Add64(Add64(MaxInt64, Neg64(PeerWait)), Int64(1)),
     MaxInt64}

\* The peer positions: the first ones, and the ones at which position
\* times 15 s passes the largest int64.
Positions == {0, 1, 2, 3, 614891469, 614891470}

\* d, hasPeer, position: the arguments and the peer state; out: what the
\* timeout function returned; outNext: what it returns one position later.
TfInit ==
    tf = [pc |-> "idle", d |-> Int64(0), hasPeer |-> FALSE, position |-> 0,
          out |-> Int64(0), outNext |-> Int64(0)]

TfCall(d, hasPeer, position) ==
    /\ tf.pc = "idle"
    /\ tf' = [pc |-> "done", d |-> d, hasPeer |-> hasPeer,
              position |-> position,
              out |-> timeoutFunc(d, hasPeer, Int64(position)),
              outNext |-> timeoutFunc(d, hasPeer, Int64(position + 1))]
    /\ UNCHANGED nonTfVars

TfReturn ==
    /\ tf.pc = "done"
    /\ tf' = [tf EXCEPT !.pc = "idle"]
    /\ UNCHANGED nonTfVars

TfNext ==
    \/ \E d \in Durations : \E hasPeer \in BOOLEAN :
           \E position \in Positions : TfCall(d, hasPeer, position)
    \/ TfReturn

(***************************************************************************)
(* Pushover.Notify: the message parameter, from the rendered message on.   *)
(***************************************************************************)
PushoverMessageLimit == 1024

\* "(no details)"
NoDetails == <<"(", "n", "o", " ", "d", "e", "t", "a", "i", "l", "s", ")">>

Repeat(c, k) == [i \in 1..k |-> c]

\* The rendered messages: a head, a run of one character of a length around
\* the limit (or a short one), and a tail.
RenderedMessages ==
    {h \o Repeat(c, k) \o t :
        h \in {<<>>, <<" ">>, <<"a">>, <<"C3", "A9">>, <<" ", "a">>},
        c \in {"a", " "},
        k \in {0, 1} \cup ((PushoverMessageLimit - 4)..(PushoverMessageLimit + 1)),
        t \in {<<>>, <<" ">>, <<"a">>, <<" ", " ">>}}

\* The first byte among i..j of s that is no space; 0 when there is none.
RECURSIVE FirstNonSpace(_, _, _)
FirstNonSpace(s, i, j) ==
    IF i > j THEN 0
    ELSE IF i = j THEN (IF s[i] # " " THEN i ELSE 0)
    ELSE IF FirstNonSpace(s, i, (i + j) \div 2) # 0
         THEN FirstNonSpace(s, i, (i + j) \div 2)
         ELSE FirstNonSpace(s, (i + j) \div 2 + 1, j)

\* The last byte among i..j of s that is no space; 0 when there is none.
RECURSIVE LastNonSpace(_, _, _)
LastNonSpace(s, i, j) ==
    IF i > j THEN 0
    ELSE IF i = j THEN (IF s[i] # " " THEN i ELSE 0)
    ELSE IF LastNonSpace(s, (i + j) \div 2 + 1, j) # 0
         THEN LastNonSpace(s, (i + j) \div 2 + 1, j)
         ELSE LastNonSpace(s, i, (i + j) \div 2)

TrimLeft(s) ==
    IF FirstNonSpace(s, 1, Len(s)) = 0 THEN <<>>
    ELSE SubSeq(s, FirstNonSpace(s, 1, Len(s)), Len(s))

TrimRight(s) == SubSeq(s, 1, LastNonSpace(s, 1, Len(s)))

\* A TrimSpace that trims the front only.
TrimSpaceLeft(s) == TrimLeft(s)

\* strings.TrimSpace
TrimSpace(s) == TrimRight(TrimLeft(s))

\* rendered: what the renderer gave for conf.Message; trimmed: the message
\* after truncate and TrimSpace; replaced: the message was replaced;
\* message: the parameter added to the form.
PoInit ==
    po = [pc |-> "idle", html |-> FALSE, rendered |-> <<>>, trimmed |-> <<>>,
          replaced |-> FALSE, message |-> <<>>]

PoNotify(html, rendered) ==
    /\ po.pc = "idle"
    /\ LET trimmed == TrimSpace(truncate(rendered, PushoverMessageLimit).s)
       IN  po' = [pc |-> "done", html |-> html, rendered |-> rendered,
                  trimmed |-> trimmed, replaced |-> (trimmed = <<>>),
                  message |-> IF trimmed = <<>> THEN NoDetails ELSE trimmed]
    /\ UNCHANGED nonPoVars

PoNext ==
    \E html \in BOOLEAN : \E rendered \in RenderedMessages :
        PoNotify(html, rendered)

(* ---- Reconcile: the initial load, the watch subscription and the ticks ---- *)
(* The store holds, per tenant, no key ("none"), an active configuration     *)
(* ("A" or "B") or a deactivated one ("off").  The watcher goroutine is       *)
(* started by NewAlertmanagerGetterWrapper and subscribes when it reaches     *)
(* c.cl.Watch; Run loads every configuration once and then applies, on each   *)
(* tick, the updates the watch has delivered.                                 *)
MaxStoreWrites == 2

RcTenants == {"t1", "t2"}

RcValues == {"A", "B", "off"}

(* At start tenant t1 has an active configuration and t2 has no key. *)
RcInitialStore == [u \in RcTenants |-> IF u = "t1" THEN "A" ELSE "none"]

(* setConfig for one configuration: an active one leaves the tenant with an  *)
(* engine running it, a deactivated or deleted one leaves the tenant without. *)
RcSetConfig(view, u, v) ==
    [view EXCEPT ![u] = IF v \in {"A", "B"} THEN v ELSE "none"]

RECURSIVE RcAddNewConfigs(_, _)
RcAddNewConfigs(view, cfgList) ==
    IF cfgList = <<>> THEN view
    ELSE RcAddNewConfigs(RcSetConfig(view, Head(cfgList).u, Head(cfgList).v),
                         Tail(cfgList))

(* GetAllConfigs: one configuration per key of the prefix. *)
RcGetAllConfigs(kv) ==
    LET one(u) == IF kv[u] = "none" THEN <<>> ELSE <<[u |-> u, v |-> kv[u]]>>
    IN  one("t1") \o one("t2")

(* What the store asks for: an engine on the stored text for every tenant    *)
(* whose configuration is active, none for any other tenant.                  *)
RcWanted(kv) == [u \in RcTenants |-> IF kv[u] \in {"A", "B"} THEN kv[u] ELSE "none"]

RcInit ==
    rc = [kv |-> RcInitialStore, writes |-> 0, watch |-> "starting",
          events |-> <<>>, run |-> "load",
          view |-> [u \in RcTenants |-> "none"], gap |-> {}]

(* A put (SetConfig, Deactivate, Restore) or a delete on the store.  An      *)
(* active subscription receives the event; one not yet subscribed does not.   *)
RcWrite(u, v) ==
    /\ rc.writes < MaxStoreWrites
    /\ rc.kv[u] # v
    /\ rc' = [rc EXCEPT !.kv[u] = v,
                        !.writes = @ + 1,
                        !.events = IF rc.watch = "active"
                                   THEN Append(@, [u |-> u, v |-> v]) ELSE @,
                        !.gap = IF rc.watch = "starting" /\ rc.run = "select"
                                THEN @ \cup {u} ELSE @]
    /\ UNCHANGED nonRcVars

(* The watcher goroutine reaches c.cl.Watch: events from now on are sent.    *)
RcWatch ==
    /\ rc.watch = "starting"
    /\ rc' = [rc EXCEPT !.watch = "active"]
    /\ UNCHANGED nonRcVars

(* Run: am.addNewConfigs(am.loadAllConfigs()). *)
RcLoad ==
    /\ rc.run = "load"
    /\ rc' = [rc EXCEPT !.run = "select",
                        !.view = RcAddNewConfigs(@, RcGetAllConfigs(rc.kv))]
    /\ UNCHANGED nonRcVars

(* A tick: updateConfigs applies what GetAllUpdatedConfigs hands over.       *)
RcTick ==
    /\ rc.run = "select"
    /\ rc.events # <<>>
    /\ rc' = [rc EXCEPT !.events = <<>>,
                        !.view = RcAddNewConfigs(@, rc.events)]
    /\ UNCHANGED nonRcVars

RcNext ==
    \/ \E u \in RcTenants, v \in RcValues \cup {"none"} : RcWrite(u, v)
    \/ RcWatch
    \/ RcLoad
    \/ RcTick

(* ---- Two store clients on one tenant's key ---- *)
(* One client calls SetConfig (a single put), the other DeactivateConfig or  *)
(* RestoreConfig (a get, a change of the copy, a put); the calls of the two  *)
(* clients interleave at the store operations.                                *)
MaxRounds == 2

RaceUser == <<"a">>

(* The configs the SetConfig client writes. *)
RaceConfigs ==
    [UserID : {RaceUser}, Config : {"H1", "H2"},
     TemplateFiles : {EmptyFn, FnA :> "T1"},
     UpdatedAtInUnix : {7}, DeactivatedAtInUnix : {0}, DeletedAtInUnix : {0}]

(* The config stored before either client starts. *)
RaceStored ==
    [UserID |-> RaceUser, Config |-> "H1", TemplateFiles |-> EmptyFn,
     UpdatedAtInUnix |-> 1, DeactivatedAtInUnix |-> 0, DeletedAtInUnix |-> 0]

(* kv: the store; set, cfg: the SetConfig call and its argument; mod, op,    *)
(* rg: the Deactivate or Restore call and the config it read; readFirst: the *)
(* put of SetConfig fell between that get and its put; round: the pairs of   *)
(* calls finished.                                                            *)
RaceInit ==
    race = [kv |-> StorePut(<<>>, RaceStored),
            set |-> "idle", cfg |-> ZeroConfig,
            mod |-> "idle", op |-> "none", rg |-> ZeroConfig,
            readFirst |-> FALSE, round |-> 0]

(* Client.SetConfig: put. *)
RaceSetConfig(amCfg) ==
    /\ race.set = "idle"
    /\ race.round < MaxRounds
    /\ race' = [race EXCEPT !.set = "done", !.cfg = amCfg,
                            !.kv = StorePut(race.kv, amCfg),
                            !.readFirst = race.mod = "read"]
    /\ UNCHANGED nonRaceVars

(* DeactivateConfig / RestoreConfig: c.GetConfig(userID). *)
RaceGet(op) ==
    /\ race.mod = "idle"
    /\ race.round < MaxRounds
    /\ race' = [race EXCEPT !.mod = "read", !.op = op,
                            !.rg = StoreGet(race.kv, getKey(RaceUser))]
    /\ UNCHANGED nonRaceVars

(* DeactivateConfig / RestoreConfig: the times are set on the copy, c.put.   *)
RacePut(now) ==
    /\ race.mod = "read"
    /\ LET amCfg == IF race.op = "deactivate"
                    THEN Deactivated(race.rg, now)
                    ELSE Restored(race.rg, now)
       IN  race' = [race EXCEPT !.mod = "done",
                                !.kv = StorePut(race.kv, amCfg)]
    /\ UNCHANGED nonRaceVars

(* Both calls have returned; the clients call again. *)
RaceAgain ==
    /\ race.set = "done"
    /\ race.mod = "done"
    /\ race' = [race EXCEPT !.set = "idle", !.mod = "idle", !.cfg = ZeroConfig,
                            !.op = "none", !.rg = ZeroConfig,
                            !.readFirst = FALSE, !.round = @ + 1]
    /\ UNCHANGED nonRaceVars

RaceNext ==
    \/ \E amCfg \in RaceConfigs : RaceSetConfig(amCfg)
    \/ \E op \in {"deactivate", "restore"} : RaceGet(op)
    \/ \E now \in Times : RacePut(now)
    \/ RaceAgain

MoreInit ==
    /\ LkInit /\ StoreInit /\ TrInit /\ TmInit /\ TpInit
    /\ TfInit /\ PoInit /\ RcInit /\ RaceInit

NotifyIdle ==
    /\ call = [p |-> "none"]
    /\ result = NoResult

vars ==
    <<mgrVars, pumpVars, notifyVars, wechatVars, runVars, watchVars, eng, http,
      moreVars>>

\* The Manager applying configs.
Init ==
    /\ MgrInit /\ PumpInit /\ NotifyIdle /\ WechatInit
    /\ RunInit /\ WatchInit /\ EngInit /\ ServeInit
    /\ MoreInit

Next == MgrNext

Spec == Init /\ [][Next]_vars

\* The change pump.
PumpSpecInit ==
    /\ PumpInit /\ MgrInit /\ NotifyIdle /\ WechatInit
    /\ RunInit /\ WatchInit /\ EngInit /\ ServeInit
    /\ MoreInit

SpecPump == PumpSpecInit /\ [][PumpNext]_vars

\* The integrations' handling of a provider's response.
RetrySpecInit ==
    /\ RetryInit /\ MgrInit /\ PumpInit /\ WechatInit
    /\ RunInit /\ WatchInit /\ EngInit /\ ServeInit
    /\ MoreInit

RetryNext == RespondStep

SpecRetry == RetrySpecInit /\ [][RetryNext]_vars

\* The integrations' Notify calls.
NotifySpecInit ==
    /\ NotifyInit /\ MgrInit /\ PumpInit /\ WechatInit
    /\ RunInit /\ WatchInit /\ EngInit /\ ServeInit
    /\ MoreInit

NotifyNext == NotifyStep

SpecNotify == NotifySpecInit /\ [][NotifyNext]_vars

\* Wechat.Notify called by the dispatcher's goroutines at the same time.
WechatSpecInit ==
    /\ WechatInit /\ NotifyIdle /\ MgrInit /\ PumpInit
    /\ RunInit /\ WatchInit /\ EngInit /\ ServeInit
    /\ MoreInit

WechatNext == (\E c \in Callers : WechatStep(c)) \/ WechatTokenAges

SpecWechat == WechatSpecInit /\ [][WechatNext]_vars

\* Client.Watch.
WatchSpecInit ==
    /\ WatchInit /\ MgrInit /\ PumpInit /\ NotifyIdle /\ WechatInit /\ RunInit
    /\ EngInit /\ ServeInit
    /\ MoreInit

WatchNext == WatchStep

SpecWatch == WatchSpecInit /\ [][WatchNext]_vars

\* The tenants' engines, each with its goroutines and its Stop.
EngSpecInit ==
    /\ EngInit /\ MgrInit /\ PumpInit /\ NotifyIdle /\ WechatInit /\ RunInit
    /\ WatchInit /\ ServeInit
    /\ MoreInit

EngNext == \E u \in Tenants : EngStep(u)

SpecEngine == EngSpecInit /\ [][EngNext]_vars

\* ServeHTTP, with setConfig calls changing the engines map.
ServeSpecInit ==
    /\ ServeInit /\ MgrInit /\ PumpInit /\ NotifyIdle /\ WechatInit /\ RunInit
    /\ WatchInit /\ EngInit
    /\ MoreInit

ServeNext ==
    \/ \E config \in StoreConfigs : setConfig(config.UserID, config)
    \/ ServeStep

SpecServe == ServeSpecInit /\ [][ServeNext]_vars

\* setConfig and ServeHTTP taking the Manager's locks.
LkSpecInit ==
    /\ MgrInit /\ PumpInit /\ NotifyIdle /\ WechatInit
    /\ RunInit /\ WatchInit /\ EngInit /\ ServeInit
    /\ MoreInit

SpecLocks == LkSpecInit /\ [][LkNext]_vars

\* The admin requests on the store, one after another.
StoreSpecInit ==
    /\ MgrInit /\ PumpInit /\ NotifyIdle /\ WechatInit
    /\ RunInit /\ WatchInit /\ EngInit /\ ServeInit
    /\ MoreInit

SpecStore == StoreSpecInit /\ [][StoreNext]_vars

\* The template files written, one createTemplatesFile call after another.
TpSpecInit ==
    /\ MgrInit /\ PumpInit /\ NotifyIdle /\ WechatInit
    /\ RunInit /\ WatchInit /\ EngInit /\ ServeInit
    /\ MoreInit

SpecTemplates == TpSpecInit /\ [][TpNext]_vars

\* The render calls of one Notify after another.
TmSpecInit ==
    /\ MgrInit /\ PumpInit /\ NotifyIdle /\ WechatInit
    /\ RunInit /\ WatchInit /\ EngInit /\ ServeInit
    /\ MoreInit

SpecLatch == TmSpecInit /\ [][TmNext]_vars

\* truncate, applied once and again to what it returned.
TrSpecInit ==
    /\ MgrInit /\ PumpInit /\ NotifyIdle /\ WechatInit
    /\ RunInit /\ WatchInit /\ EngInit /\ ServeInit
    /\ MoreInit

SpecTruncate == TrSpecInit /\ [][TrNext]_vars

\* The timeout function, call by call.
TfSpecInit ==
    /\ MgrInit /\ PumpInit /\ NotifyIdle /\ WechatInit
    /\ RunInit /\ WatchInit /\ EngInit /\ ServeInit
    /\ MoreInit

SpecTimeout == TfSpecInit /\ [][TfNext]_vars

\* Pushover.Notify's message parameter, for one rendered message.
PoSpecInit ==
    /\ MgrInit /\ PumpInit /\ NotifyIdle /\ WechatInit
    /\ RunInit /\ WatchInit /\ EngInit /\ ServeInit
    /\ MoreInit

SpecPushover == PoSpecInit /\ [][PoNext]_vars

RcSpecInit ==
    /\ MgrInit /\ PumpInit /\ NotifyIdle /\ WechatInit
    /\ RunInit /\ WatchInit /\ EngInit /\ ServeInit
    /\ MoreInit

RaceSpecInit ==
    /\ MgrInit /\ PumpInit /\ NotifyIdle /\ WechatInit
    /\ RunInit /\ WatchInit /\ EngInit /\ ServeInit
    /\ MoreInit

SpecRace == RaceSpecInit /\ [][RaceNext]_vars

SpecReconcile == RcSpecInit /\ [][RcNext]_vars

(* The goroutines of the watcher and of Run are scheduled; writers need not  *)
(* write.                                                                     *)
SpecReconcileFair ==
    SpecReconcile /\ WF_vars(RcWatch) /\ WF_vars(RcLoad) /\ WF_vars(RcTick)

\* Run and Manager.Stop.
RunSpecInit ==
    /\ MgrInit /\ RunInit /\ PumpInit /\ NotifyIdle
    /\ WechatInit /\ WatchInit /\ EngInit /\ ServeInit
    /\ MoreInit

RunNext == RunStep \/ StopStep

SpecRun == RunSpecInit /\ [][RunNext]_vars

\* Run and Manager.Stop with every goroutine scheduled: a step that stays
\* possible is taken, and the select takes the stop case sooner or later.
SpecRunFair ==
    /\ SpecRun
    /\ WF_vars(RunBackoff) /\ WF_vars(RunLoadFail \/ \E b \in Batches : RunLoadOK(b))
    /\ WF_vars(RunAdd) /\ WF_vars(RunAddDone) /\ WF_vars(RunTickError)
    /\ SF_vars(RunExit)
    /\ WF_vars(StopWait) /\ WF_vars(StopReturn)
    /\ \A u \in Tenants : WF_vars(StopEngine(u))

(***************************************************************************)
(* Properties of Manager.setConfig.                                        *)
(***************************************************************************)

\* What the admin API accepts: the text loads and every template file parses.
ValidConfig(config) ==
    /\ amconfigLoadOK(config.Config)
    /\ \A fn \in DOMAIN config.TemplateFiles :
         TemplateParses(config.TemplateFiles[fn])

\* The engines of tenant u whose background tasks are running.
LiveEngines(u) ==
    {id \in DOMAIN engines : engines[id].user = u /\ EngineLive(engines[id])}

LastWasOff == last.ret # "none" /\ CarriesOff(last.config)

LastWasActive == last.ret # "none" /\ ~CarriesOff(last.config)

\* C1: when the most recent setConfig call for a tenant carried a
\* deactivation or deletion time, neither the engines map nor the config
\* cache has an entry for the tenant; the call itself stopped the engine the
\* tenant had, removed it from the map, and created no engine.
C1_OffTenantHasNoEngine ==
    /\ \A u \in last.offs :
         u \notin DOMAIN alertmanagers /\ u \notin DOMAIN cfgs
    /\ LastWasOff =>
         /\ last.created = 0
         /\ last.pre # 0 =>
              /\ ~EngineLive(engines[last.pre])
              /\ engines[last.pre].stops = 1
              /\ \A v \in DOMAIN alertmanagers : alertmanagers[v] # last.pre

\* C1 witness: a tenant with a running engine has just been deactivated.
C1_Witness ==
    /\ LastWasOff
    /\ last.pre # 0
    /\ last.preCfg.Config \in {"H1", "H2"}
    /\ last.stopped = 1

\* C2: a tenant never has more than one engine that was started and has not
\* been stopped.
C2_AtMostOneLiveEngine ==
    \A u \in Tenants : Cardinality(LiveEngines(u)) <= 1

\* C3: a call with a valid active config that differs from the
\* cached one (or whose templates changed) on a tenant with an engine applies
\* the config once to that engine, creates none, and leaves the cache at the
\* new text.
C3_UpdateAppliesOnce ==
    (LastWasActive /\ last.pre # 0 /\ ValidConfig(last.config)
       /\ (last.preCfg.Config # last.config.Config \/ last.changed))
    => /\ last.applied = 1
       /\ last.created = 0
       /\ EngineOf(last.u) = last.pre
       /\ Cached(last.u).Config = last.config.Config

\* C4: the second of two identical calls with a valid active config
\* creates no engine, applies nothing, and leaves exactly one engine, the
\* same instance, and the same cache entry.
C4_RepeatIsNoOp ==
    (LastWasActive /\ last.prevSame /\ ValidConfig(last.config))
    => /\ last.created = 0
       /\ last.applied = 0
       /\ last.pre # 0
       /\ EngineOf(last.u) = last.pre
       /\ Cached(last.u) = last.preCfg
       /\ Cardinality(LiveEngines(last.u)) = 1

\* C5: a call whose config text fails to parse returns an error and leaves
\* the engines map, every engine and the config cache exactly as they were:
\* nothing is created, stopped or re-applied.
C5_ParseFailureChangesNothing ==
    [][(last'.n = last.n + 1 /\ ~CarriesOff(last'.config)
          /\ ~amconfigLoadOK(last'.config.Config))
       => /\ last'.ret = "err"
          /\ alertmanagers' = alertmanagers
          /\ engines' = engines
          /\ cfgs' = cfgs
          /\ last'.created = 0
          /\ last'.applied = 0
          /\ last'.stopped = 0]_vars

\* C5 witness: a tenant with a running engine was given a text that does not
\* parse, and the engine is still in place.
C5_Witness ==
    /\ LastWasActive
    /\ ~amconfigLoadOK(last.config.Config)
    /\ last.pre # 0
    /\ EngineOf(last.u) = last.pre
    /\ EngineLive(engines[last.pre])

(***************************************************************************)
(* Properties of the change pump.                                          *)
(***************************************************************************)

IsPrefix(a, b) == Len(a) <= Len(b) /\ SubSeq(b, 1, Len(a)) = a

\* The events the collector holds outside the channel and the buffer.
InFlight == IF cpc \in {"lock", "append"} THEN <<crg>> ELSE <<>>

\* The buffer's events no drain has taken yet.
Undrained ==
    IF \E d \in Drainers : dpc[d] = "clear" THEN <<>> ELSE newUpdates

\* C6: under every interleaving of the collector and the callers of
\* GetAllUpdatedConfigs, the concatenation of all drain results is a prefix
\* of the events posted; every posted event is in exactly one place (a drain
\* result, the buffer, the collector's hand or the channel), in posting
\* order; and the buffer is empty right after a drain has replaced it.
C6_DrainsArePrefixOfPosted ==
    /\ IsPrefix(drained, posted)
    /\ drained \o Undrained \o InFlight \o ch = posted
    /\ \A d \in Drainers : dpc[d] = "unlock" => newUpdates = <<>>

\* C6 witness: every posted event has been drained, by two drains that each
\* returned events.
C6_Witness ==
    /\ Len(posted) = MaxEvents
    /\ drained = posted
    /\ \E d \in Drainers :
         /\ dpc[d] = "return"
         /\ dlist[d] # <<>>
         /\ Len(dlist[d]) < Len(drained)

(***************************************************************************)
(* Properties of the integrations.                                         *)
(***************************************************************************)

Is2xx(statusCode) == statusCode >= 200 /\ statusCode <= 299

Is5xx(statusCode) == statusCode >= 500 /\ statusCode <= 599

\* The non-2xx codes the table of providers gives as retryable.
TableRetryable(p) ==
    CASE p \in {"webhook", "slack", "victorops", "pushover"} ->
             {c \in StatusCodes : Is5xx(c)}
      [] p \in {"pagerdutyV2", "hipchat", "opsgenie"} ->
             {c \in StatusCodes : Is5xx(c) \/ c = 429}
      [] p = "pagerdutyV1" ->
             {c \in StatusCodes : Is5xx(c) \/ c = 403}
      [] p = "wechat" ->
             {c \in StatusCodes : ~Is2xx(c)}

Answered == result.err # "none"

\* C7 as stated: for every provider, WeChat included, a 2xx status gives
\* (false, nil), a retryable status of the provider gives (true, err), every
\* other status gives (false, err).
C7_StatusClassification ==
    Answered =>
        IF Is2xx(call.status) THEN result = Ret(FALSE, "nil")
        ELSE IF call.status \in TableRetryable(call.p)
             THEN result.retry /\ result.err # "nil"
             ELSE ~result.retry /\ result.err # "nil"

\* C7: for every provider but WeChat, a 2xx status gives (false, nil), a
\* retryable status of the provider gives (true, err), every other status
\* gives (false, err). For WeChat every status but 200 gives (true, err);
\* status 200 gives (false, nil) when the body's code is 0, (true, err) when
\* it is 42001 or the body cannot be decoded, (false, err) otherwise.
C7_StatusClassificationPerProvider ==
    Answered =>
        IF call.p = "wechat"
        THEN IF call.status # 200 THEN result.retry /\ result.err # "nil"
             ELSE IF call.code = "0" THEN result = Ret(FALSE, "nil")
             ELSE IF call.code \in {"42001", "unparsable"}
                  THEN result.retry /\ result.err # "nil"
                  ELSE ~result.retry /\ result.err # "nil"
        ELSE IF Is2xx(call.status) THEN result = Ret(FALSE, "nil")
             ELSE IF call.status \in TableRetryable(call.p)
                  THEN result.retry /\ result.err # "nil"
                  ELSE ~result.retry /\ result.err # "nil"

\* C7 witness: WeChat has answered 200 with the code of an expired token and
\* the call is retryable.
C7_Witness ==
    /\ Answered
    /\ call.p = "wechat"
    /\ call.status = 200
    /\ call.code = "42001"
    /\ result.retry

\* C8: a non-2xx status is marked retryable exactly when it is a 5xx
\* (Webhook, Slack, VictorOps, Pushover), a 5xx or 429 (PagerDuty v2,
\* Hipchat, OpsGenie), a 5xx or 403 (PagerDuty v1); 429 is fatal for
\* PagerDuty v1 and 403 is fatal for PagerDuty v2.
C8_RetryableSets ==
    (Answered /\ call.p # "wechat" /\ ~Is2xx(call.status)) =>
        /\ result.retry <=> call.status \in TableRetryable(call.p)
        /\ (call.p = "pagerdutyV1" /\ call.status = 429) => ~result.retry
        /\ (call.p = "pagerdutyV2" /\ call.status = 403) => ~result.retry

\* C8 witness: PagerDuty v1 has answered 403 and the call is retryable.
C8_Witness ==
    /\ Answered
    /\ call.p = "pagerdutyV1"
    /\ call.status = 403
    /\ result.retry

\* C9: in every integration, a call in which a templated field fails to
\* render (a field rendered into the request URL included) returns
\* (false, err) with the render error and hands no request to the provider.
C9_RenderFailureIsFatal ==
    (Answered /\ result.tmplErr # {}) =>
        /\ ~result.retry
        /\ result.err = "template"
        /\ result.sent = <<>>

\* C10: in every integration, a call whose context carries no group key
\* returns (false, err) and hands no request to the provider.
C10_MissingGroupKeyIsFatal ==
    (Answered /\ ~call.hasKey) =>
        /\ ~result.retry
        /\ result.err # "nil"
        /\ result.sent = <<>>

\* The error texts that hold the request URL.
HoldsURL(err) ==
    err \in {UrlError, "failed to post message to PagerDuty: " \o UrlError}

\* C11: in every integration, no error that Notify returns holds the request
\* URL: after a failed post the URL has been replaced by "<redacted>".
C11_ErrorsAreRedacted ==
    Answered => ~HoldsURL(result.err)

WechatReturned(c) == wpc[c] = "idle" /\ wloc[c].ret.err # "none"

Got42001(c) ==
    /\ wloc[c].resp.transportOK
    /\ wloc[c].resp.status = 200
    /\ wloc[c].resp.code = "42001"

\* C12: on a WeChat integration, whatever other calls are in flight: a Notify
\* that sent a cached token and is answered 200 with code 42001 clears the
\* cached token and returns (true, err); the next Notify to reach the token
\* check after that answer, if it goes on to message/send, sends gettoken
\* first; a Notify that finds a cached token younger than two hours sends no
\* gettoken.
C12_TokenExpiry ==
    /\ [][\A c \in Callers :
            (wpc[c] = "send" /\ WechatReturned(c)' /\ Got42001(c)'
             /\ wloc[c].sentTok > 0)
                => /\ accessToken' = 0
                   /\ wloc'[c].ret.retry
                   /\ wloc'[c].ret.err # "nil"]_vars
    /\ [](\A c \in Callers :
            /\ (wloc[c].after42001 /\ wloc[c].sentTok # -1)
                   => wloc[c].reqs = <<"gettoken", "send">>
            /\ (wloc[c].found > 0 /\ wloc[c].fresh)
                   => \A i \in DOMAIN wloc[c].reqs :
                          wloc[c].reqs[i] # "gettoken")

C12_Witness ==
    \E c \in Callers :
        /\ wloc[c].after42001
        /\ wloc[c].reqs = <<"gettoken", "send">>
        /\ WechatReturned(c)

\* C13: among concurrent Notify calls on one WeChat integration at most one
\* token refresh is under way at a time, and no call clears or overwrites a
\* token that was cached after the call read the token it used.
C13_OneRefreshAtATime ==
    /\ Cardinality({c \in Callers : wpc[c] \in {"gettoken", "store"}}) <= 1
    /\ ~whist.clearedNewer
    /\ ~whist.overwroteNewer

EnginesInMapStopped ==
    \A u \in DOMAIN alertmanagers : ~EngineLive(engines[alertmanagers[u]])

\* C14: on Manager shutdown every engine in the engines map has been stopped
\* before the done channel is closed.
C14_EnginesStoppedBeforeDone ==
    doneCh => EnginesInMapStopped

\* C15: once Manager.Stop has closed the stop channel, Run eventually exits and
\* Stop eventually returns.
C15_StopTerminates ==
    stopCh ~> (rpc = "exited" /\ spc = "returned")

\* C16: Run calls GetAllUpdatedConfigs only after GetAllConfigs has succeeded
\* and addNewConfigs has passed every entry of its list, in order, to
\* setConfig; until GetAllConfigs succeeds Run stays in the retry loop and no
\* engine is created, re-applied or stopped.
C16_InitialLoadFirst ==
    /\ [](rhist.updCalled =>
              rhist.loadOK /\ rhist.loadApplied = rhist.initial)
    /\ [](~rhist.loadOK =>
              /\ rpc \in {"load", "backoff"}
              /\ last.n = 0
              /\ engines = EmptyFn
              /\ alertmanagers = EmptyFn)
    /\ [][(rpc = "add" /\ last'.n # last.n) =>
              /\ last'.n = last.n + 1
              /\ last'.config = batch[last'.n - batchBase]
              /\ last'.u = last'.config.UserID]_vars

C16_Witness ==
    /\ rhist.updCalled
    /\ rhist.initial >= 2
    /\ DOMAIN alertmanagers # {}

\* C17: a tick whose GetAllUpdatedConfigs fails changes neither the engines
\* map, nor the engines, nor the cfgs cache; Run does not exit but goes back to
\* its select with the ticker running, so the next tick polls again.
C17_FailedPollChangesNothing ==
    /\ [][rpc' = "failed" =>
              UNCHANGED <<alertmanagers, cfgs, engines, disk>>]_vars
    /\ [][rpc = "failed" =>
              /\ UNCHANGED <<alertmanagers, cfgs, engines, disk>>
              /\ rpc' \in {"failed", "select"}]_vars
    /\ [](rpc \in {"failed", "select"} => ticker = "running" /\ ~doneCh)

C17_Witness ==
    /\ rpc = "failed"
    /\ DOMAIN alertmanagers # {}
    /\ cfgs # EmptyFn

\* C18: Watch has sent one message per store event, in event order: for a put
\* the config its value holds; for a delete a config with the user ID the
\* deleted key was made from, a deletion time above 0 and nothing else.
C18_OneMessagePerEvent ==
    /\ Len(wout) = Len(wevents)
    /\ \A i \in DOMAIN wevents :
           i \in DOMAIN wout =>
               IF wevents[i].type = "put"
               THEN wevents[i].decodes => wout[i] = wevents[i].doc
               ELSE /\ wout[i].UserID = wevents[i].id
                    /\ wout[i].DeletedAtInUnix > 0
                    /\ [wout[i] EXCEPT !.UserID = "", !.DeletedAtInUnix = 0]
                           = NoConfig

\* C19: once Stop of an engine has returned, its dispatcher is stopped, its
\* alert store is closed, its stop channel is closed, and the notification
\* log's and the silences' maintenance have both returned.
C19_StopTearsDownAll ==
    \A u \in Tenants :
        eng[u].pc = "returned" =>
            /\ eng[u].dispatcher # "running"
            /\ eng[u].alerts = "closed"
            /\ eng[u].stop
            /\ eng[u].nflog = "done"
            /\ eng[u].silences = "done"

C19_Witness ==
    \E u \in Tenants :
        /\ eng[u].pc = "returned"
        /\ eng[u].dispatcher = "stopped"

NoTenantHeader == http.header \in {"absent", ""}

\* C20: ServeHTTP answers 401 to a request whose tenant header is missing or
\* empty and 404 to one whose tenant had no entry in the engines map when it
\* was looked up; any other request is handed to the engine the map held
\* under that very user ID, which is that tenant's engine, and to no other.
C20_ServeHTTPRoutesByTenant ==
    /\ NoTenantHeader => http.pc \in {"idle", "done"} /\ http.to = 0
    /\ http.pc = "done" =>
           /\ NoTenantHeader => http.status = 401
           /\ (~NoTenantHeader /\ ~http.had) =>
                  http.status = 404 /\ http.to = 0
           /\ (~NoTenantHeader /\ http.had) =>
                  /\ http.status = 0
                  /\ http.to = http.was
                  /\ http.to \in DOMAIN engines
                  /\ engines[http.to].user = http.header

C20_Witness ==
    /\ http.pc = "done"
    /\ http.header = "u2"
    /\ http.to # 0
    /\ "u1" \in DOMAIN alertmanagers

BothLocksHeld ==
    lk.cfgMutex = "setConfig" /\ lk.alertmanagersMtx = "setConfig"

\* C21: setConfig is never inside an engine's Stop, the creation of an engine,
\* ApplyConfig or the writing of template files while it holds both the cfgs
\* lock and the engines lock.
C21_NoBlockingCallUnderBothLocks ==
    BothLocksHeld => lk.op = "none"


\* A deactivate or restore request for a tenant with a stored config is over
\* and was answered 200.
AdminDone(op) ==
    /\ store.pc = "idle" /\ store.op = op /\ store.resp = 200
    /\ getKey(store.u) \in DOMAIN store.pre

UpToTimes(amCfg) ==
    [amCfg EXCEPT !.UpdatedAtInUnix = 0, !.DeactivatedAtInUnix = 0]

UpToUpdatedAt(amCfg) == [amCfg EXCEPT !.UpdatedAtInUnix = 0]

\* The request changed nothing of the store but deactivated_at and updated_at
\* of its tenant's config.
AdminFrame ==
    /\ DOMAIN store.kv = DOMAIN store.pre
    /\ \A k \in DOMAIN store.pre :
          IF k = getKey(store.u)
          THEN UpToTimes(store.kv[k]) = UpToTimes(store.pre[k])
          ELSE store.kv[k] = store.pre[k]

DeactivateFrame ==
    AdminDone("deactivate") =>
        AdminFrame /\ store.kv[getKey(store.u)].DeactivatedAtInUnix > 0

RestoreFrame ==
    AdminDone("restore") =>
        AdminFrame /\ store.kv[getKey(store.u)].DeactivatedAtInUnix = 0

\* A restore of u is over that directly followed a deactivation of u's
\* stored config.
RestoredAfterDeactivate ==
    /\ AdminDone("restore")
    /\ store.prev.op = "deactivate" /\ store.prev.u = store.u
    /\ store.prev.resp = 200
    /\ store.prev.had

\* C22 as stated: DeactivateConfig(u) and RestoreConfig(u) change only
\* deactivated_at (to a value > 0, to 0) and updated_at of u's stored config,
\* and Deactivate followed by Restore yields the original stored config up to
\* updated_at.
C22_DeactivateRestoreFrame ==
    /\ DeactivateFrame
    /\ RestoreFrame
    /\ RestoredAfterDeactivate =>
          UpToUpdatedAt(store.kv[getKey(store.u)])
              = UpToUpdatedAt(store.prev.orig)

\* C22 amended: the same frame, and Deactivate followed by Restore yields the
\* original stored config up to updated_at with deactivated_at 0, which is
\* the original itself when the original was not deactivated.
C22_DeactivateRestoreFrameActive ==
    /\ DeactivateFrame
    /\ RestoreFrame
    /\ RestoredAfterDeactivate =>
          UpToUpdatedAt(store.kv[getKey(store.u)])
              = [UpToUpdatedAt(store.prev.orig)
                    EXCEPT !.DeactivatedAtInUnix = 0]

\* A restore after a deactivation of a config with template files that was
\* not deactivated before.
C22_Witness ==
    /\ RestoredAfterDeactivate
    /\ store.prev.orig.DeactivatedAtInUnix = 0
    /\ store.prev.orig.TemplateFiles # EmptyFn

\* C23: a deactivate or restore request for a tenant without a stored config
\* is answered 404 and leaves the store as it was.
C23_UnknownTenantIs404 ==
    (/\ store.pc = "idle" /\ store.op \in {"deactivate", "restore"}
     /\ store.u # <<>>
     /\ getKey(store.u) \notin DOMAIN store.pre)
        => store.resp = 404 /\ store.kv = store.pre

\* C23 without the status: such a request leaves the store as it was.
C23_UnknownTenantWritesNothing ==
    (/\ store.pc = "idle" /\ store.op \in {"deactivate", "restore"}
     /\ store.u # <<>>
     /\ getKey(store.u) \notin DOMAIN store.pre)
        => store.kv = store.pre


\* A path lies under a directory.
Under(p, dir) == Len(p) > Len(dir) /\ SubSeq(p, 1, Len(dir)) = dir

\* The files the last createTemplatesFile call created or modified.
TouchedFiles ==
    {p \in DOMAIN tp.disk : p \notin DOMAIN tp.before \/ tp.before[p] # tp.disk[p]}

\* C24: writing template fn of tenant u creates or modifies no file outside
\* {data_dir}/templates/u/.
C24_TemplatesStayInTenantDir ==
    \A p \in TouchedFiles : Under(p, TenantTemplateDir(tp.u))

\* The same for names without a '..' segment.
C24_PlainNamesStayInTenantDir ==
    (\A i \in 1..Len(tp.fn) : tp.fn[i] # "..") =>
        \A p \in TouchedFiles : Under(p, TenantTemplateDir(tp.u))

\* C25: the file written for template fn of tenant u is
\* {data_dir}/templates/u/fn, the file ApplyConfig loads for fn.
C25_WritePathIsLoadPath ==
    tp.u # "" =>
        /\ TemplateLoadPath(tp.u, tp.fn) \in DOMAIN tp.disk
        /\ tp.disk[TemplateLoadPath(tp.u, tp.fn)] = tp.content

\* The same for names without a directory component.
C25_BareNamesWritePathIsLoadPath ==
    (tp.u # "" /\ Len(tp.fn) = 1) =>
        /\ TemplateLoadPath(tp.u, tp.fn) \in DOMAIN tp.disk
        /\ tp.disk[TemplateLoadPath(tp.u, tp.fn)] = tp.content


\* Every render call made after a render call failed returned the empty
\* string without evaluating its template.
LaterRendersEmpty ==
    \A i \in 1..Len(tm.log) :
        tm.log[i].after # "nil" => tm.log[i].s = "" /\ ~tm.log[i].evaluated

\* C26: once a render call failed, every later render call through the same
\* error cell returns the empty string without evaluating its template, the
\* cell keeps the first error until it is checked, and the first error is
\* what Notify surfaces.
C26_FirstErrorLatched ==
    /\ LaterRendersEmpty
    /\ (tm.first # "nil" /\ tm.pc # "done") => tm.err = tm.first
    /\ (tm.first # "nil" /\ tm.pc = "done") => tm.surfaced = tm.first

\* The same for the Notify calls that render and then check.
C26_FirstErrorLatchedPlain ==
    tm.kind = "plain" => C26_FirstErrorLatched


\* C27: truncate(s, n) returns a string of at most n code points; the flag is
\* true exactly when s has more than n code points, and when s has at most n
\* code points the output is s.
C27_TruncateBound ==
    tr.pc # "idle" =>
        /\ Len(Runes(tr.out)) <= tr.n
        /\ tr.flag <=> Len(Runes(tr.s)) > tr.n
        /\ Len(Runes(tr.s)) <= tr.n => tr.out = tr.s

\* C27 witness: a string with a two-byte code point and more than n > 3 code
\* points was cut and given the ellipsis.
C27_Witness ==
    /\ tr.pc = "once"
    /\ tr.n > 3
    /\ tr.flag
    /\ \E i \in 1..Len(tr.s) : tr.s[i] = "C3"
    /\ Len(tr.out) > 0 /\ tr.out[Len(tr.out)] = "."

\* C28: truncate with the same n applied to the output of truncate(s, n)
\* returns that output unchanged with flag false.
C28_TruncateIdempotent ==
    tr.pc = "twice" => tr.out2 = tr.out /\ ~tr.flag2

\* Decoding by halves gives what the decoder's loop gives.
RunesAsTheLoop ==
    /\ Runes(tr.s) = RunesLoop(tr.s)
    /\ Runes(tr.out) = RunesLoop(tr.out)

\* C28 witness: truncate has been applied again to an output that the first
\* application had cut.
C28_Witness ==
    /\ tr.pc = "twice"
    /\ tr.flag
    /\ tr.out # tr.s
    /\ tr.out # <<>>


\* The step leaves tenant u's engine and cached config as they were.
TenantUntouched(u) ==
    /\ (u \in DOMAIN alertmanagers') <=> (u \in DOMAIN alertmanagers)
    /\ (u \in DOMAIN cfgs') <=> (u \in DOMAIN cfgs)
    /\ u \in DOMAIN cfgs => cfgs'[u] = cfgs[u]
    /\ u \in DOMAIN alertmanagers =>
          /\ alertmanagers'[u] = alertmanagers[u]
          /\ engines'[alertmanagers[u]] = engines[alertmanagers[u]]

\* C29: a setConfig that fails for one entry of a batch leaves the engines and
\* cached configs of the other tenants alone and leaves Run in addNewConfigs,
\* which goes back to the select only when setConfig has been called for
\* every entry of the batch; Run exits on the stop signal only.
C29_BatchSurvivesFailure ==
    /\ [][(rpc = "add" /\ last'.n # last.n /\ last'.ret = "err") =>
              /\ rpc' = "add"
              /\ \A u \in Tenants \ {last'.u} : TenantUntouched(u)]_vars
    /\ [][(rpc = "add" /\ rpc' # "add") =>
              /\ last.n - batchBase = Len(batch)
              /\ rpc' = "select"]_vars
    /\ [](rpc = "exited" => stopCh)

\* C29 witness: the first entry of a batch of two failed, setConfig was then
\* called for the second, which gave its tenant an engine, and Run is back at
\* the select.
C29_Witness ==
    /\ rpc = "select"
    /\ Len(batch) = 2
    /\ last.n - batchBase = 2
    /\ last.prevRet = "err"
    /\ last.ret = "ok"
    /\ last.u # batch[1].UserID
    /\ last.u \in DOMAIN alertmanagers


\* C30: the first ApplyConfig on a fresh engine calls Stop on no nil handle,
\* and leaves the engine with exactly one running dispatcher and one running
\* inhibitor.
C30_FirstApplyGuardsNilHandles ==
    \A u \in Tenants :
        (eng[u].applies = 1 /\ eng[u].pc = "idle") =>
            /\ eng[u].nilStops = 0
            /\ eng[u].dispatchers = 1
            /\ eng[u].inhibitors = 1

\* What the first ApplyConfig leaves running, whatever it called Stop on.
C30_FirstApplyStartsOneOfEach ==
    \A u \in Tenants :
        (eng[u].applies >= 1 /\ eng[u].pc = "idle") =>
            /\ eng[u].dispatchers = 1
            /\ eng[u].inhibitors = 1


\* The larger of d and the floor.
Floored(d) == IF Less64(d, MinTimeout) THEN MinTimeout ELSE d

\* C31: the timeout function returns max(d, MinTimeout) + wait(): a timeout
\* that is not below MinTimeout, not below max(d, MinTimeout), equal to it
\* without a peer, and not smaller one peer position later.
C31_TimeoutAtLeastMin ==
    tf.pc = "done" =>
        /\ ~Less64(tf.out, MinTimeout)
        /\ ~Less64(tf.out, Floored(tf.d))
        /\ ~tf.hasPeer => tf.out = Floored(tf.d)
        /\ ~Less64(tf.outNext, tf.out)

\* The same for the timeouts and positions of up to a day and three peers.
C31_TimeoutAtLeastMinSmall ==
    (/\ tf.pc = "done" /\ tf.position <= 3
     /\ ~Less64(Mul64(Int64(86400), Second), tf.d)
     /\ ~Negative64(tf.d))
        => /\ ~Less64(tf.out, MinTimeout)
           /\ ~Less64(tf.out, Floored(tf.d))
           /\ ~tf.hasPeer => tf.out = Floored(tf.d)
           /\ tf.hasPeer =>
                 tf.outNext = Add64(tf.out, Mul64(Int64(15), Second))


AllSpaces(s) == \A i \in 1..Len(s) : s[i] = " "

\* C32: the message parameter Pushover.Notify sends is neither empty nor
\* whitespace-only nor longer than 1024 code points; it is "(no details)"
\* in place of the truncated and trimmed message exactly when that is empty.
C32_PushoverMessage ==
    po.pc = "done" =>
        /\ ~AllSpaces(po.message)
        /\ po.message[1] # " " /\ po.message[Len(po.message)] # " "
        /\ Len(Runes(po.message)) <= PushoverMessageLimit
        /\ po.replaced <=> po.trimmed = <<>>
        /\ po.message = IF po.replaced THEN NoDetails ELSE po.trimmed

\* C32 witness: a message of spaces as long as the limit allows was sent as
\* "(no details)".
C32_Witness ==
    /\ po.pc = "done"
    /\ Len(po.rendered) = PushoverMessageLimit
    /\ AllSpaces(po.rendered)
    /\ po.message = NoDetails

\* A whitespace-only message is sent as "(no details)": so it is up to the
\* limit, while a longer one is cut to spaces and "..." first.
WhitespaceOnlyIsNoDetails ==
    (po.pc = "done" /\ AllSpaces(po.rendered)) => po.message = NoDetails


\* The renderer e holds was built from exactly the template files of config:
\* every file in it has the content config gives under a name for that file,
\* and every file of config that the config text names is in it.
BuiltFromTemplatesOf(e, u, config) ==
    /\ \A p \in DOMAIN e.tmpl :
          \E fn \in DOMAIN config.TemplateFiles :
              /\ TemplateLoadPath(u, fn) = p
              /\ config.TemplateFiles[fn] = e.tmpl[p]
    /\ \A fn \in DOMAIN config.TemplateFiles :
          TemplateLoadPath(u, fn) \in ApplyTemplateFiles(u, config.Config)
              => TemplateLoadPath(u, fn) \in DOMAIN e.tmpl

\* C33: when setConfig has returned without error for an active config, the
\* tenant's engine runs with that config's text and with a renderer built
\* from exactly that config's template files.
C33_EngineBuiltFromConfig ==
    (LastWasActive /\ last.ret = "ok") =>
        /\ last.u \in DOMAIN alertmanagers
        /\ engines[alertmanagers[last.u]].conf = last.config.Config
        /\ BuiltFromTemplatesOf(engines[alertmanagers[last.u]], last.u,
                                last.config)

\* The text part alone.
C33_EngineHasConfigText ==
    (LastWasActive /\ last.ret = "ok") =>
        /\ last.u \in DOMAIN alertmanagers
        /\ engines[alertmanagers[last.u]].conf = last.config.Config

(* C34: with store reads succeeding and the stored configurations valid,     *)
(* the engines eventually are exactly what the store asks for: every tenant  *)
(* with an active configuration has an engine running the stored text, no    *)
(* other tenant has one; a change written between the initial load and the   *)
(* moment the subscription becomes active is not missed by both.             *)
C34_EnginesConvergeToStore == <>[](rc.view = RcWanted(rc.kv))

(* The same in a form a finite run settles: once the load is done, the      *)
(* subscription is active and nothing is pending, the engines are what the   *)
(* store asks for.                                                            *)
C34_QuietMeansConverged ==
    (rc.run = "select" /\ rc.watch = "active" /\ rc.events = <<>>)
        => rc.view = RcWanted(rc.kv)

(* Without a write in the gap between the load and the subscription the      *)
(* quiet state is a converged one.                                            *)
C34_QuietMeansConvergedWithoutGap ==
    (rc.run = "select" /\ rc.watch = "active" /\ rc.events = <<>> /\ rc.gap = {})
        => rc.view = RcWanted(rc.kv)

(* C35: after every setConfig call, returned with success or with an error,  *)
(* the tenants with a cached config are the tenants with an engine in the    *)
(* map, and each cached config text is the text most recently applied        *)
(* successfully to that tenant's engine.                                     *)
C35_CacheMatchesEngines ==
    /\ DOMAIN cfgs = DOMAIN alertmanagers
    /\ \A u \in DOMAIN cfgs :
         /\ alertmanagers[u] \in DOMAIN engines
         /\ cfgs[u].Config = engines[alertmanagers[u]].conf

(* A re-apply of a different text has just failed for a tenant whose engine  *)
(* keeps running the text applied before.                                    *)
C35_Witness ==
    /\ last.ret = "err"
    /\ last.applied = 1
    /\ last.u \in DOMAIN cfgs
    /\ cfgs[last.u].Config # last.config.Config
    /\ engines[alertmanagers[last.u]].conf = cfgs[last.u].Config

Registered(id) == \E u \in DOMAIN alertmanagers : alertmanagers[u] = id

(* C36: every engine whose background tasks NewAlertmanager started is in    *)
(* the engines map or has been stopped; a call in which the initial          *)
(* ApplyConfig of a new engine fails returns an error and leaves no task of  *)
(* that engine running.                                                       *)
C36_StartedEngineRegisteredOrStopped ==
    /\ \A id \in DOMAIN engines :
           EngineLive(engines[id]) => Registered(id)
    /\ (last.created = 1 /\ ~Registered(Cardinality(DOMAIN engines)))
           => last.ret = "err"

(* The part that holds: a call whose new engine is not registered returns    *)
(* an error.                                                                  *)
C36_FailedCreateReturnsError ==
    (last.created = 1 /\ ~Registered(Cardinality(DOMAIN engines)))
        => last.ret = "err"

(* C37: over any sequence of reconcile calls followed by Manager.Stop no     *)
(* engine has Stop called on it more than once: an engine stopped by a       *)
(* deactivation or deletion is no longer in the map when Manager.Stop        *)
(* ranges over it.                                                            *)
C37_StopAtMostOnce ==
    /\ \A id \in DOMAIN engines : engines[id].stops <= 1
    /\ spc \in {"engines", "returned"} =>
           \A u \in DOMAIN alertmanagers \ rhist.ranged :
               engines[alertmanagers[u]].stops = 0

(* Manager.Stop has returned after stopping one engine of the map, another   *)
(* engine having been stopped by a deactivation before.                       *)
C37_Witness ==
    /\ spc = "returned"
    /\ \E id \in DOMAIN engines : engines[id].stops = 1 /\ Registered(id)
    /\ \E id \in DOMAIN engines :
           /\ engines[id].stops = 1
           /\ ~Registered(id)
           /\ engines[id].conf # ""

(* C38: after Stop has returned, the inhibitor started by the engine's most  *)
(* recent ApplyConfig is no longer running: Stop ends every task ApplyConfig *)
(* started, not only the dispatcher.                                          *)
C38_StopEndsInhibitor ==
    \A u \in Tenants :
        eng[u].pc = "returned" =>
            /\ eng[u].inhibitor # "running"
            /\ eng[u].inhibitors = 0
            /\ eng[u].dispatchers = 0

(* What Stop does end of the tasks ApplyConfig started: the dispatcher.      *)
C38_StopEndsDispatcher ==
    \A u \in Tenants :
        eng[u].pc = "returned" => eng[u].dispatchers = 0

(* C39: under any interleaving of ServeHTTP with a setConfig that            *)
(* deactivates or deletes the same tenant, ServeHTTP hands no request to an  *)
(* engine whose Stop has begun: a request is served by a running engine or   *)
(* answered with 404.                                                         *)
C39_ForwardsToRunningEngine ==
    [][(http.pc = "forward" /\ http'.pc = "done") =>
           /\ http'.to \in DOMAIN engines
           /\ engines[http'.to].stops = 0
           /\ EngineLive(engines[http'.to])]_vars

(* What the lookup under the lock does guarantee: the engine was running     *)
(* and registered when it was looked up.                                      *)
C39_RunningAtLookup ==
    [][(http.pc = "lookup" /\ http'.pc = "forward") =>
           /\ EngineLive(engines[http'.userAM])
           /\ Registered(http'.userAM)]_vars

RaceBothDone == race.set = "done" /\ race.mod = "done"

RaceStoredNow == StoreGet(race.kv, getKey(RaceUser))

(* C40: a DeactivateConfig or RestoreConfig that runs concurrently with a    *)
(* SetConfig for the same tenant does not lose the written config: once both *)
(* have returned, the stored config text and template files are those of the *)
(* SetConfig, however the get, the change and the puts interleave.           *)
C40_SetConfigNotLost ==
    RaceBothDone =>
        /\ RaceStoredNow.Config = race.cfg.Config
        /\ RaceStoredNow.TemplateFiles = race.cfg.TemplateFiles

(* When the SetConfig did not fall between the get and the put of the other  *)
(* call, its text and template files are the stored ones.                    *)
C40_SetConfigKeptWhenNotBetween ==
    (RaceBothDone /\ ~race.readFirst) =>
        /\ RaceStoredNow.Config = race.cfg.Config
        /\ RaceStoredNow.TemplateFiles = race.cfg.TemplateFiles

====
